---------------------------- MODULE Spec2Model ----------------------------
(***************************************************************************)
(* A model of the chord engine of dust: the pitch primitives (Degree, Key, *)
(* Interval), the ChordSpec grammar (from_str and Display), interval       *)
(* computation, distance and voice leading, the progression template with  *)
(* its transition map and generator, and the Progression grid.             *)
(*                                                                         *)
(* Conventions.  A Rust String is a sequence of one-character strings.     *)
(* Option<T> is a sequence of length 0 (None) or 1 (Some).  A Result is a  *)
(* record [ok, err, val] with val an Option.  A call that aborts (an       *)
(* unwrap of None, an index out of bounds, a usize subtraction below 0) is *)
(* the record Panicked in place of Returned(v); a pure helper f that can   *)
(* abort comes with a predicate f_panics stating when it does.             *)
(***************************************************************************)
EXTENDS Integers, Sequences, FiniteSets, TLC

VARIABLES
    \* Key::note / Interval::to_degree session
    key, degree, note, interval, degree_res, back,
    \* ChordSpec builder, Display and FromStr session
    cs, text, parsed, ivs, pc,
    \* voice_lead session
    chords, led,
    \* ProgressionTemplate and gen_progression
    template, gen,
    \* Progression grid
    resolution, sequence, chord_index, grid_op, vl_prog,
    \* Chord::notes session
    nkey, ncs, notes,
    \* Note Display and FromStr session
    pitch, pitch_name, pitch_back,
    \* Degree::to_interval session
    deg_mode, deg_in, deg_out,
    \* ChordSpec::distance session
    dist_pair, dist_res,
    \* ModeTemplate transitions session
    mode_template, next_res,
    \* Progression queries session
    query,
    \* update_transitions on a template with earlier transitions
    rebuild,
    \* MIDIOutput: note_owners, the play_notes calls and their threads, the
    \* messages the last step sent on the connection, the notes that are on
    \* at the receiver, the connection, the time
    note_owners, plays, midi_sent, sounding, conn,
    \* PlaybackState and the last evaluation of current_chord
    playback, current,
    \* MIDIClock: the tick and playing of the callback, the event it delivered
    \* for the last message, and what came in before
    clock, clock_ev, clock_in

scaleVars == <<key, degree, note, interval, degree_res, back>>
chordVars == <<cs, text, parsed, ivs, pc>>
voiceVars == <<chords, led>>
genVars   == <<template, gen>>
gridVars  == <<resolution, sequence, chord_index, grid_op, vl_prog>>
notesVars == <<nkey, ncs, notes>>
nameVars  == <<pitch, pitch_name, pitch_back>>
degVars   == <<deg_mode, deg_in, deg_out>>
distVars  == <<dist_pair, dist_res>>
transVars == <<mode_template, next_res>>
pureVars  == <<notesVars, nameVars, degVars, distVars, transVars>>
statefulVars == <<scaleVars, chordVars, voiceVars, genVars, gridVars>>
queryVars == <<query>>
rebuildVars == <<rebuild>>
midiVars == <<note_owners, plays, midi_sent, sounding, conn>>
playbackVars == <<playback, current>>
clockVars == <<clock, clock_ev, clock_in>>
appVars == <<queryVars, rebuildVars, midiVars, playbackVars, clockVars>>
vars == <<statefulVars, pureVars, appVars>>

-----------------------------------------------------------------------------
(* Generic helpers *)

None == <<>>
Some(x) == <<x>>
IsSome(o) == Len(o) = 1
Unwrap(o) == o[1]

Returned(v) == [panicked |-> FALSE, val |-> <<v>>]
Panicked == [panicked |-> TRUE, val |-> <<>>]

Ok(v) == [val |-> <<v>>, ok |-> TRUE, err |-> ""]
Err(e) == [val |-> <<>>, ok |-> FALSE, err |-> e]

Abs(n) == IF n < 0 THEN -n ELSE n

Range(s) == {s[i] : i \in 1..Len(s)}

Count(s, c) == Cardinality({i \in 1..Len(s) : s[i] = c})

Repeat(c, n) == [i \in 1..n |-> c]

RECURSIVE Flatten(_)
Flatten(ss) == IF ss = <<>> THEN <<>> ELSE Head(ss) \o Flatten(Tail(ss))

Digits == <<"0", "1", "2", "3", "4", "5", "6", "7", "8", "9">>
DigitSet == Range(Digits)
DigitVal(c) == CHOOSE v \in 0..9 : Digits[v + 1] = c

\* str::parse::<usize> of a non-empty run of ASCII digits
RECURSIVE ParseDigits(_)
ParseDigits(s) ==
    IF s = <<>> THEN 0
    ELSE 10 * ParseDigits(SubSeq(s, 1, Len(s) - 1)) + DigitVal(s[Len(s)])

\* usize::to_string
RECURSIVE UsizeToString(_)
UsizeToString(n) ==
    IF n < 10 THEN <<Digits[n + 1]>>
    ELSE UsizeToString(n \div 10) \o <<Digits[(n % 10) + 1]>>

\* the end (exclusive) of the longest run of characters of S starting at i
RECURSIVE RunEnd(_, _, _)
RunEnd(s, i, S) ==
    IF i <= Len(s) /\ s[i] \in S THEN RunEnd(s, i + 1, S) ELSE i

\* s[i..j) in Rust's slice notation, 1-based
Slice(s, i, j) == SubSeq(s, i, j - 1)

-----------------------------------------------------------------------------
(* core/key.rs: Mode, the scale tables *)

Modes == {"Major", "Minor"}

MAJOR == <<0, 2, 4, 5, 7, 9, 11>>
MINOR == <<0, 1, 3, 5, 7, 8, 10>>

ScaleTable(mode) == IF mode = "Major" THEN MAJOR ELSE MINOR

-----------------------------------------------------------------------------
(* core/degree.rs *)

Degree(d, a) == [degree |-> d, adj |-> a]

\* Degree::to_interval.  degree_0 = degree - 1 is a usize: degree 0 aborts.
Degree_to_interval_panics(deg) == deg.degree < 1

\* Degree::to_interval with the adjustment left out
Degree_to_interval_noadj(deg, mode) ==
    LET degree_0 == deg.degree - 1
        octaves == (degree_0 \div 8) * 12
    IN  ScaleTable(mode)[(degree_0 % 7) + 1] + octaves

Degree_to_interval(deg, mode) ==
    LET degree_0 == deg.degree - 1
        octaves == (degree_0 \div 8) * 12
    IN  ScaleTable(mode)[(degree_0 % 7) + 1] + octaves + deg.adj

\* Degree::from_str with EXT_RE: a run of [b#] (group 1), then digits (group 2)
Degree_from_str(s) ==
    LET e == RunEnd(s, 1, {"b", "#"})
        adjustments == Slice(s, 1, e)
        digits == Slice(s, e, Len(s) + 1)
    IN  IF digits = <<>> \/ ~(Range(digits) \subseteq DigitSet)
        THEN Err("InvalidDegree")
        ELSE Ok(Degree(ParseDigits(digits),
                       Count(adjustments, "#") - Count(adjustments, "b")))

\* impl Display for Degree
Degree_fmt(deg) ==
    LET count == Abs(deg.adj)
        s == IF deg.adj < 0 THEN Repeat("b", count)
             ELSE IF deg.adj > 0 THEN Repeat("#", count)
             ELSE <<>>
    IN  s \o UsizeToString(deg.degree)

-----------------------------------------------------------------------------
(* core/key.rs: Key *)

\* Key::interval (deg = degree.degree - 1 is a usize: degree 0 aborts)
Key_interval_panics(deg) == deg.degree < 1

\* Key::interval with the octave of the degree added, as Degree::to_interval has it
Key_interval_octave(k, deg) ==
    LET d == deg.degree - 1
    IN  ScaleTable(k.mode)[(d % 7) + 1] + 12 * (d \div 7) + deg.adj

Key_interval(k, deg) ==
    LET d == deg.degree - 1
    IN  ScaleTable(k.mode)[(d % 7) + 1] + deg.adj

\* Key::note: Note + Interval is plain semitone addition (note.rs Add)
Key_note(k, deg) == k.root + Key_interval(k, deg)

-----------------------------------------------------------------------------
(* core/interval.rs *)

MAJ_DEGS_src == << <<"1">>, <<"b", "2">>, <<"2">>, <<"b", "3">>, <<"3">>, <<"4">>,
                   <<"b", "5">>, <<"5">>, <<"b", "6">>, <<"6">>, <<"b", "7">>, <<"7">> >>
MIN_DEGS_src == << <<"1">>, <<"2">>, <<"b", "3">>, <<"3">>, <<"b", "4">>, <<"4">>,
                   <<"b", "5">>, <<"5">>, <<"6">>, <<"b", "7">>, <<"7">>, <<"#", "7">> >>

MAJ_DEGS == [i \in 1..12 |-> Unwrap(Degree_from_str(MAJ_DEGS_src[i]).val)]
MIN_DEGS == [i \in 1..12 |-> Unwrap(Degree_from_str(MIN_DEGS_src[i]).val)]

\* Interval::to_degree with the remainder of the absolute value
Interval_to_degree_abs(semitones, mode) ==
    LET idx == Abs(semitones) % 12
    IN  IF mode = "Major" THEN MAJ_DEGS[idx + 1] ELSE MIN_DEGS[idx + 1]

\* Interval::to_degree
Interval_to_degree(semitones, mode) ==
    LET idx == semitones % 12      \* rem_euclid
    IN  IF mode = "Major" THEN MAJ_DEGS[idx + 1] ELSE MIN_DEGS[idx + 1]

-----------------------------------------------------------------------------
(* core/chord.rs: ChordSpec, its builder API *)

Triads == {"Mode", "Diminished", "Augmented", "Sus2", "Sus4", "Power"}

\* ChordSpec::new
ChordSpec_new(d, mode) ==
    [mode |-> mode, root |-> Degree(d, 0), triad |-> "Mode",
     extensions |-> <<>>, bass_degree |-> None, inversion |-> 0,
     rel_key |-> None]

\* ChordSpec::triad
ChordSpec_triad(c, t) == [c EXCEPT !.triad = t]

\* ChordSpec::add
ChordSpec_add(c, d, a) == [c EXCEPT !.extensions = Append(@, Degree(d, a))]

\* ChordSpec::bass
ChordSpec_bass(c, d, a) == [c EXCEPT !.bass_degree = Some(Degree(d, a))]

\* ChordSpec::key_of
ChordSpec_key_of(c, d, mode) == [c EXCEPT !.rel_key = Some(<<d, mode>>)]

\* ChordSpec::adj
ChordSpec_adj(c, a) == [c EXCEPT !.root.adj = a]

\* ChordSpec::shift
ChordSpec_shift(c, octaves) == [c EXCEPT !.root.adj = @ + octaves * 12]

\* ChordSpec::inversion
ChordSpec_inversion(c, n) == [c EXCEPT !.inversion = n]

\* the triad skeleton of ChordSpec::intervals (the match on self.triad)
TriadIntervals(c) ==
    CASE c.triad = "Mode" -> IF c.mode = "Major" THEN <<0, 4, 7>> ELSE <<0, 3, 7>>
      [] c.triad = "Diminished" -> <<0, 3, 6>>
      [] c.triad = "Augmented" -> <<0, 4, 8>>
      [] c.triad = "Sus2" -> <<0, 2, 7>>
      [] c.triad = "Sus4" -> <<0, 5, 7>>
      [] c.triad = "Power" -> <<0, 7>>

\* ChordSpec::intervals aborts on MAJOR[degree - 1 % 7] = MAJOR[degree - 1] for a
\* relative key outside 1..7, and on a degree 0 among the extensions or the bass
intervals_panics(c) ==
    \/ IsSome(c.rel_key) /\ Unwrap(c.rel_key)[1] \notin 1..7
    \/ \E i \in 1..Len(c.extensions) : Degree_to_interval_panics(c.extensions[i])
    \/ IsSome(c.bass_degree) /\ Degree_to_interval_panics(Unwrap(c.bass_degree))

\* ChordSpec::intervals
intervals(c) ==
    LET offset == IF c.rel_key = None THEN 0
                  ELSE ScaleTable(c.mode)[Unwrap(c.rel_key)[1]]
        mode == IF c.rel_key = None THEN c.mode ELSE Unwrap(c.rel_key)[2]
        withExt == TriadIntervals(c) \o
                   [i \in 1..Len(c.extensions) |->
                        Degree_to_interval(c.extensions[i], mode)]
        withBass ==
            IF IsSome(c.bass_degree)
            THEN LET bass_interval == Degree_to_interval(Unwrap(c.bass_degree), mode)
                 IN  [i \in 1..Len(withExt) |->
                        IF withExt[i] < bass_interval THEN withExt[i] + 12
                        ELSE withExt[i]]
            ELSE withExt
        inverted ==
            IF c.inversion > 0
            THEN LET inv == IF c.inversion < Len(withBass) THEN c.inversion
                            ELSE Len(withBass)
                     shifted == [i \in 1..inv |-> withBass[i] + 12]
                 IN  SubSeq(withBass, inv + 1, Len(withBass)) \o shifted
            ELSE withBass
    IN  [i \in 1..Len(inverted) |-> offset + inverted[i]] \o <<>>

\* ChordSpec::intervals_from_key_root
intervals_from_key_root(c) ==
    LET offset == Degree_to_interval(c.root, c.mode)
        is == intervals(c)
    IN  [i \in 1..Len(is) |-> is[i] + offset]

\* ChordSpec::chord_for_key followed by Chord::notes, unsorted: the semitones
\* root + interval in interval order
chord_for_key(c, k) ==
    LET root == Key_note(k, c.root)
        is == intervals(c)
    IN  [i \in 1..Len(is) |-> root + is[i]]

\* the position of the first minimum of a non-empty sequence (Iterator::min_by_key
\* returns the first of several equally minimum elements)
FirstMin(ds) ==
    CHOOSE i \in 1..Len(ds) :
        /\ \A j \in 1..Len(ds) : ds[i] <= ds[j]
        /\ \A j \in 1..(i - 1) : ds[j] > ds[i]

RemoveAt(s, i) == SubSeq(s, 1, i - 1) \o SubSeq(s, i + 1, Len(s))

\* the loop of ChordSpec::distance over intvs_a, claiming from intvs_b
RECURSIVE GreedyMatch(_, _)
GreedyMatch(as, bs) ==
    IF as = <<>> THEN 0
    ELSE LET a == Head(as)
             ds == [j \in 1..Len(bs) |-> Abs(a - bs[j])] \o <<>>
             idx == FirstMin(ds)
         IN  ds[idx] + GreedyMatch(Tail(as), RemoveAt(bs, idx))

\* ChordSpec::distance: intervals_from_key_root of either chord aborts on a root of
\* degree 0 (Degree::to_interval) and where intervals does; the unwrap of
\* min_by_key aborts once intvs_b is used up
distance_panics(a, b) ==
    \/ Degree_to_interval_panics(a.root) \/ intervals_panics(a)
    \/ Degree_to_interval_panics(b.root) \/ intervals_panics(b)
    \/ Len(intervals(a)) > Len(intervals(b))

distance(a, b) == GreedyMatch(intervals_from_key_root(a), intervals_from_key_root(b))

\* ChordSpec::inversions
inversions(c) ==
    LET is == intervals(c)
    IN  [i \in 1..Len(is) |->
            LET deg == Interval_to_degree(is[i], c.mode)
            IN  ChordSpec_bass(c, deg.degree, deg.adj)]

\* the octave shifts voice_lead searches: the Rust range (-1..1)
VoiceLeadShifts == <<-1, 0>>

\* the candidates of voice_lead for one chord, in iteration order
voice_lead_cands(c) ==
    Flatten([s \in 1..Len(VoiceLeadShifts) |->
                inversions(ChordSpec_shift(c, VoiceLeadShifts[s]))])

\* the loop of voice_lead: res so far, the chords left
RECURSIVE voice_lead_loop(_, _)
voice_lead_loop(res, rest) ==
    IF rest = <<>> THEN Returned(res)
    ELSE LET last_chord == res[Len(res)]
             cands == voice_lead_cands(Head(rest))
         IN  IF \/ intervals_panics(Head(rest))
                \/ \E i \in 1..Len(cands) : distance_panics(cands[i], last_chord)
             THEN Panicked
             ELSE LET ds == [i \in 1..Len(cands) |->
                                distance(cands[i], last_chord)] \o <<>>
                  IN  voice_lead_loop(Append(res, cands[FirstMin(ds)]), Tail(rest))

\* voice_lead
voice_lead(cl) ==
    IF cl = <<>> THEN Returned(<<>>)
    ELSE voice_lead_loop(<<cl[1]>>, Tail(cl))

-----------------------------------------------------------------------------
(* core/chord.rs: the text form of a ChordSpec *)

NUMERALS == << <<"I">>, <<"I", "I">>, <<"I", "I", "I">>, <<"I", "V">>, <<"V">>,
               <<"V", "I">>, <<"V", "I", "I">> >>

\* str::to_lowercase / str::to_uppercase on the characters of a numeral
LowerChar(c) == IF c = "I" THEN "i" ELSE IF c = "V" THEN "v" ELSE c
UpperChar(c) == IF c = "i" THEN "I" ELSE IF c = "v" THEN "V" ELSE c
to_lowercase(s) == [i \in 1..Len(s) |-> LowerChar(s[i])]
to_uppercase(s) == [i \in 1..Len(s) |-> UpperChar(s[i])]

\* numeral_to_index (0-based position, as an Option)
numeral_to_index(numeral) ==
    IF \E i \in 1..7 : NUMERALS[i] = to_uppercase(numeral)
    THEN Some((CHOOSE i \in 1..7 : NUMERALS[i] = to_uppercase(numeral)) - 1)
    ELSE None

\* numeral_to_mode
numeral_to_mode(numeral) ==
    IF Range(numeral) \subseteq {"i", "v"} THEN Ok("Minor")
    ELSE IF Range(numeral) \subseteq {"I", "V"} THEN Ok("Major")
    ELSE Err("InvalidNumeral")

\* Vec<String>::join(",")
RECURSIVE JoinComma(_)
JoinComma(ss) ==
    IF ss = <<>> THEN <<>>
    ELSE IF Len(ss) = 1 THEN ss[1]
    ELSE ss[1] \o <<",">> \o JoinComma(Tail(ss))

\* impl Display for ChordSpec indexes NUMERALS[(degree - 1) % 7] on a usize, for
\* the root and for the relative key: with a degree of 0 the subtraction aborts
\* a build with overflow checks
ChordSpec_fmt_panics(c) ==
    \/ c.root.degree < 1
    \/ IsSome(c.rel_key) /\ Unwrap(c.rel_key)[1] < 1

\* impl Display for ChordSpec, where it returns; in a build without overflow
\* checks 0 - 1 wraps to usize::MAX = 2^64 - 1, and (2^64 - 1) % 7 = 1
ChordSpec_fmt(c) ==
    LET upper == NUMERALS[(IF c.root.degree >= 1 THEN (c.root.degree - 1) % 7
                           ELSE 1) + 1]
        numeral == IF c.mode = "Minor" \/ c.triad = "Diminished"
                   THEN to_lowercase(upper) ELSE upper
        count == Abs(c.root.adj)
        octaves == count \div 12
        rem == count % 12
        accidentals == IF c.root.adj < 0 THEN Repeat("b", rem)
                       ELSE IF c.root.adj > 0 THEN Repeat("#", rem)
                       ELSE <<>>
        triad == CASE c.triad = "Diminished" -> <<"-">>
                   [] c.triad = "Augmented" -> <<"+">>
                   [] c.triad = "Sus2" -> <<"_">>
                   [] c.triad = "Sus4" -> <<"^">>
                   [] c.triad = "Power" -> <<"5">>
                   [] c.triad = "Mode" -> <<>>
        exts == [i \in 1..Len(c.extensions) |-> Degree_fmt(c.extensions[i])]
        extPart == IF Len(exts) > 0 THEN <<":">> \o JoinComma(exts) ELSE <<>>
        bassPart == IF IsSome(c.bass_degree)
                    THEN <<"/">> \o Degree_fmt(Unwrap(c.bass_degree)) ELSE <<>>
        invPart == IF c.inversion > 0
                   THEN <<"%">> \o UsizeToString(c.inversion) ELSE <<>>
        octPart == IF octaves # 0
                   THEN IF c.root.adj < 0 THEN <<"<">> \o UsizeToString(octaves)
                        ELSE IF c.root.adj > 0 THEN <<">">> \o UsizeToString(octaves)
                        ELSE <<>>
                   ELSE <<>>
        keyPart == IF IsSome(c.rel_key)
                   THEN LET n == NUMERALS[(IF Unwrap(c.rel_key)[1] >= 1
                                           THEN (Unwrap(c.rel_key)[1] - 1) % 7
                                           ELSE 1) + 1]
                        IN  <<"~">> \o (IF Unwrap(c.rel_key)[2] = "Minor"
                                        THEN to_lowercase(n) ELSE n)
                   ELSE <<>>
    IN  numeral \o accidentals \o triad \o extPart \o bassPart \o invPart
            \o octPart \o keyPart

(***************************************************************************)
(* CHORD_RE, written here with blanks between its groups:                  *)
(*   ^ ([IV]+|[iv]+) ([b#])* ([+-^_5])? (: ([b#]?\d+,?)* )?                *)
(*     ( / ([b#]?\d+) | (% ([b#]?\d+) ) )? (>\d+)? (<\d+)?                *)
(*     (~ ([IV]+|[iv]+) )? $                                               *)
(* matched the way the regex crate does (leftmost-first: a greedy operator *)
(* takes what it can as long as the rest still matches).  The class        *)
(* [+-^_5] holds the range '+'..'^' (0x2B..0x5E), '_' and '5'.  A capture  *)
(* group under a star, ([b#])*, reports its last iteration only.           *)
(***************************************************************************)
TriadClass == {"+", ",", "-", ".", "/", "0", "1", "2", "3", "4", "5", "6", "7",
               "8", "9", ":", ";", "<", "=", ">", "?", "@", "A", "B", "C", "D",
               "E", "F", "G", "H", "I", "J", "K", "L", "M", "N", "O", "P", "Q",
               "R", "S", "T", "U", "V", "W", "X", "Y", "Z", "[", "\\", "]", "^",
               "_"}

At(s, i) == IF i >= 1 /\ i <= Len(s) THEN s[i] ELSE ""

\* the items [b#]?\d+,? repeated, against the whole of r
ExtItemsMatch(r) ==
    \A i \in 1..Len(r) :
        /\ r[i] \in {"b", "#"} => At(r, i + 1) \in DigitSet
        /\ r[i] = "," => At(r, i - 1) \in DigitSet

\* [b#]?\d+ at position i: the end (exclusive) of the match, or 0
AccDigitsEnd(s, i) ==
    LET j == IF At(s, i) \in {"b", "#"} THEN i + 1 ELSE i
        e == RunEnd(s, j, DigitSet)
    IN  IF e > j THEN e ELSE 0

\* The state of a match of CHORD_RE: whether it still matches, the position
\* reached, and the capture groups filled so far
RE_start == [matched |-> TRUE, end |-> 1, g1 |-> <<>>, g2 |-> None, g3 |-> None,
             g4 |-> None, g7 |-> None, g9 |-> None, g10 |-> None, g11 |-> None,
             g13 |-> None]

\* ([IV]+|[iv]+)
RE_numeral(s, m) ==
    LET nEnd == IF At(s, m.end) \in {"I", "V"} THEN RunEnd(s, m.end, {"I", "V"})
                ELSE RunEnd(s, m.end, {"i", "v"})
    IN  [m EXCEPT !.matched = @ /\ nEnd > m.end, !.end = nEnd,
                  !.g1 = Slice(s, m.end, nEnd)]

\* ([b#])*
RE_accidentals(s, m) ==
    LET aEnd == RunEnd(s, m.end, {"b", "#"})
    IN  [m EXCEPT !.end = aEnd,
                  !.g2 = IF aEnd > m.end THEN Some(<<At(s, aEnd - 1)>>) ELSE None]

\* (: ([b#]?\d+,?)* )?
RE_extensions(s, m) ==
    LET eEnd == IF At(s, m.end) = ":"
                THEN RunEnd(s, m.end + 1, {"b", "#", ","} \cup DigitSet)
                ELSE m.end
    IN  [m EXCEPT !.matched = @ /\ ExtItemsMatch(Slice(s, m.end + 1, eEnd)),
                  !.end = eEnd,
                  !.g4 = IF eEnd > m.end THEN Some(Slice(s, m.end, eEnd)) ELSE None]

\* ( / ([b#]?\d+) | (% ([b#]?\d+) ) )?  A failed match leaves the position at 0.
RE_bass(s, m) ==
    LET isBass == At(s, m.end) = "/"
        isInv == At(s, m.end) = "%"
        bEnd == IF isBass \/ isInv THEN AccDigitsEnd(s, m.end + 1) ELSE m.end
    IN  [m EXCEPT !.matched = @ /\ bEnd > 0, !.end = bEnd,
                  !.g7 = IF isBass /\ bEnd > 0
                         THEN Some(Slice(s, m.end + 1, bEnd)) ELSE None,
                  !.g9 = IF isInv /\ bEnd > 0
                         THEN Some(Slice(s, m.end + 1, bEnd)) ELSE None]

\* (>\d+)?
RE_up(s, m) ==
    LET isUp == At(s, m.end) = ">"
        uRun == IF isUp THEN RunEnd(s, m.end + 1, DigitSet) ELSE m.end
        uOk == isUp => uRun > m.end + 1
    IN  [m EXCEPT !.matched = @ /\ uOk, !.end = uRun,
                  !.g10 = IF isUp /\ uOk THEN Some(Slice(s, m.end, uRun)) ELSE None]

\* (<\d+)?
RE_down(s, m) ==
    LET isDown == At(s, m.end) = "<"
        dRun == IF isDown THEN RunEnd(s, m.end + 1, DigitSet) ELSE m.end
        dOk == isDown => dRun > m.end + 1
    IN  [m EXCEPT !.matched = @ /\ dOk, !.end = dRun,
                  !.g11 = IF isDown /\ dOk THEN Some(Slice(s, m.end, dRun)) ELSE None]

\* (~ ([IV]+|[iv]+) )? $
RE_key(s, m) ==
    LET isKey == At(s, m.end) = "~"
        kRun == IF ~isKey THEN m.end
                ELSE IF At(s, m.end + 1) \in {"I", "V"}
                     THEN RunEnd(s, m.end + 1, {"I", "V"})
                     ELSE RunEnd(s, m.end + 1, {"i", "v"})
        kOk == isKey => kRun > m.end + 1
    IN  [m EXCEPT !.matched = @ /\ kOk /\ kRun = Len(s) + 1, !.end = kRun,
                  !.g13 = IF isKey /\ kOk
                          THEN Some(Slice(s, m.end + 1, kRun)) ELSE None]

\* The groups after the triad, from position m.end to the end of the text:
\* the extensions, the bass or the inversion, the two shifts, the relative key
CHORD_RE_tail(s, m) ==
    RE_key(s, RE_down(s, RE_up(s, RE_bass(s, RE_extensions(s, m)))))

\* ([+-^_5])? and the rest: the triad symbol is taken if the rest then matches
RE_triad(s, m) ==
    LET withTriad == CHORD_RE_tail(s, [m EXCEPT !.end = @ + 1,
                                                !.g3 = Some(<<At(s, m.end)>>)])
    IN  IF At(s, m.end) \in TriadClass /\ withTriad.matched THEN withTriad
        ELSE CHORD_RE_tail(s, m)

\* CHORD_RE.captures(s): [matched, g1, g2, g3, g4, g7, g9, g10, g11, g13]
CHORD_RE_captures(s) ==
    RE_triad(s, RE_accidentals(s, RE_numeral(s, RE_start)))

\* str::split(",") of a text without leading comma, empty pieces dropped
RECURSIVE SplitComma(_)
SplitComma(s) ==
    LET e == RunEnd(s, 1, {"b", "#"} \cup DigitSet)
    IN  IF s = <<>> THEN <<>>
        ELSE IF e = 1 THEN SplitComma(Tail(s))
        ELSE <<Slice(s, 1, e)>> \o SplitComma(Slice(s, e, Len(s) + 1))

\* the match on the triad symbol in from_str
TriadOfSymbol(g3) ==
    IF g3 = None THEN Ok("Mode")
    ELSE CASE Unwrap(g3) = <<"-">> -> Ok("Diminished")
           [] Unwrap(g3) = <<"+">> -> Ok("Augmented")
           [] Unwrap(g3) = <<"_">> -> Ok("Sus2")
           [] Unwrap(g3) = <<"^">> -> Ok("Sus4")
           [] Unwrap(g3) = <<"5">> -> Ok("Power")
           [] OTHER -> Err("InvalidTriadSymbol")

\* the root adjustment from_str computes from the accidental and the shifts
RootAdjOf(caps) ==
    (IF IsSome(caps.g2)
     THEN Count(Unwrap(caps.g2), "#") - Count(Unwrap(caps.g2), "b") ELSE 0)
    + (IF IsSome(caps.g10) THEN 12 * ParseDigits(Tail(Unwrap(caps.g10))) ELSE 0)
    - (IF IsSome(caps.g11) THEN 12 * ParseDigits(Tail(Unwrap(caps.g11))) ELSE 0)

\* the extensions from_str parses out of the extension group
ExtensionsOf(caps) ==
    IF IsSome(caps.g4)
    THEN LET strs == SplitComma(Tail(Unwrap(caps.g4)))
         IN  [i \in 1..Len(strs) |-> Degree_from_str(strs[i])]
    ELSE <<>>

\* from_str once the captures are known, in the order of its ? operators
ChordSpec_from_captures(caps, mode, triad, extRes, degree_0, bassRes, keyIdx) ==
    IF ~caps.matched THEN Err("InvalidChord")
    ELSE IF ~mode.ok THEN Err("InvalidNumeral")
    ELSE IF ~triad.ok THEN Err("InvalidTriadSymbol")
    ELSE IF \E i \in 1..Len(extRes) : ~extRes[i].ok THEN Err("InvalidExtension")
    ELSE IF degree_0 = None THEN Err("InvalidNumeral")
    ELSE IF ~bassRes.ok THEN Err("InvalidExtension")
    ELSE IF IsSome(caps.g13) /\ keyIdx = None THEN Err("InvalidRelKey")
    ELSE IF IsSome(caps.g9) /\ ~(Range(Unwrap(caps.g9)) \subseteq DigitSet)
         THEN Err("ParseIntError")
    ELSE Ok([mode |-> Unwrap(mode.val),
             root |-> Degree(Unwrap(degree_0) + 1, RootAdjOf(caps)),
             triad |-> Unwrap(triad.val),
             extensions |-> [i \in 1..Len(extRes) |-> Unwrap(extRes[i].val)],
             bass_degree |-> IF IsSome(caps.g7) THEN bassRes.val ELSE None,
             inversion |-> IF IsSome(caps.g9) THEN ParseDigits(Unwrap(caps.g9))
                           ELSE 0,
             rel_key |-> IF IsSome(caps.g13)
                         THEN Some(<<Unwrap(keyIdx) + 1,
                                     Unwrap(numeral_to_mode(Unwrap(caps.g13)).val)>>)
                         ELSE None])

ChordSpec_from_match(caps) ==
    ChordSpec_from_captures(caps,
        numeral_to_mode(caps.g1),
        TriadOfSymbol(caps.g3),
        ExtensionsOf(caps),
        numeral_to_index(caps.g1),
        IF IsSome(caps.g7) THEN Degree_from_str(Unwrap(caps.g7)) ELSE Ok(0),
        IF IsSome(caps.g13) THEN numeral_to_index(Unwrap(caps.g13)) ELSE None)

\* impl FromStr for ChordSpec.  Counts stay far below usize::MAX here, so the
\* ParseIntError of an overflowing count does not arise; "%b1" does raise it.
ChordSpec_from_str(s) == ChordSpec_from_match(CHORD_RE_captures(s))

-----------------------------------------------------------------------------
(* Bounds of the model *)

MaxDegree == 15        \* scale degrees 1..MaxDegree
MaxAdj == 2            \* chromatic adjustments -MaxAdj..MaxAdj
MaxSemitones == 14     \* interval semitones -MaxSemitones..MaxSemitones

\* key roots: below A0, C3 (the tests' key) and C4 (Key::default)
KeyRoots == {-3, 27, 39}

-----------------------------------------------------------------------------
(* The states in which a session of the model is not in use *)

ScaleIdle == /\ key = None /\ degree = None /\ note = None
             /\ interval = None /\ degree_res = None /\ back = None
ChordIdle == /\ cs = None /\ text = None /\ parsed = None /\ ivs = None
             /\ pc = "idle"
VoiceIdle == chords = <<>> /\ led = None
GenIdle == template = None /\ gen = None
GridIdle == /\ resolution = "unset" /\ sequence = <<>> /\ chord_index = <<>>
            /\ grid_op = "idle" /\ vl_prog = None
NotesIdle == nkey = None /\ ncs = None /\ notes = None
NameIdle == pitch = None /\ pitch_name = None /\ pitch_back = None
DegIdle == deg_mode = None /\ deg_in = None /\ deg_out = None
DistIdle == dist_pair = None /\ dist_res = None
TransIdle == mode_template = None /\ next_res = None
PureIdle == NotesIdle /\ NameIdle /\ DegIdle /\ DistIdle /\ TransIdle
QueryIdle == query = None
RebuildIdle == rebuild = None
MidiIdle == /\ note_owners = None /\ plays = <<>> /\ midi_sent = <<>>
            /\ sounding = {} /\ conn = None
PlaybackIdle == playback = None /\ current = None
ClockIdle == clock = None /\ clock_ev = None /\ clock_in = None
AppIdle == QueryIdle /\ RebuildIdle /\ MidiIdle /\ PlaybackIdle /\ ClockIdle
StatefulIdle == ScaleIdle /\ ChordIdle /\ VoiceIdle /\ GenIdle /\ GridIdle

-----------------------------------------------------------------------------
(* Key::note, Interval::to_degree and Degree::to_interval on a key *)

notScale == <<chordVars, voiceVars, genVars, gridVars, pureVars, appVars>>

ScaleInit ==
    /\ \E r \in KeyRoots, m \in Modes : key = Some([mode |-> m, root |-> r])
    /\ degree = None /\ note = None
    /\ interval = None /\ degree_res = None /\ back = None
    /\ ChordIdle /\ VoiceIdle /\ GenIdle /\ GridIdle /\ PureIdle /\ AppIdle

\* key.note(&Degree { degree: d, adj: a })
KeyNote(d, a) ==
    /\ degree' = Some(Degree(d, a))
    /\ note' = Some(Key_note(Unwrap(key), Degree(d, a)))
    /\ UNCHANGED <<key, interval, degree_res, back, notScale>>

\* Interval { semitones: s }.to_degree(&key.mode)
ToDegree(s) ==
    /\ interval' = Some(s)
    /\ degree_res' = Some(Interval_to_degree(s, Unwrap(key).mode))
    /\ back' = None
    /\ UNCHANGED <<key, degree, note, notScale>>

\* the degree just obtained, resolved again: deg.to_interval(&key.mode)
ToInterval ==
    /\ IsSome(degree_res) /\ back = None
    /\ back' = Some(Degree_to_interval(Unwrap(degree_res), Unwrap(key).mode))
    /\ UNCHANGED <<key, degree, note, interval, degree_res, notScale>>

ScaleNext ==
    \/ \E d \in 1..MaxDegree, a \in -MaxAdj..MaxAdj : KeyNote(d, a)
    \/ \E s \in -MaxSemitones..MaxSemitones : ToDegree(s)
    \/ ToInterval

SpecScale == ScaleInit /\ [][ScaleNext]_vars

\* C8 as stated: Key.note(d) = root + table[(d-1) mod 7] + 12*floor((d-1)/7) + adj,
\* so that degree 8 lies one octave above the root.
C8_NoteWithOctaveWrap ==
    IsSome(note) =>
        LET k == Unwrap(key)
            d == Unwrap(degree)
        IN  Unwrap(note) = k.root + ScaleTable(k.mode)[((d.degree - 1) % 7) + 1]
                             + 12 * ((d.degree - 1) \div 7) + d.adj

\* C8 as amended: Key.note(d) = root + table[(d-1) mod 7] + adj, with no octave
\* term: degree 1 with adj 0 is the root, and so is degree 8 (and degree 15).
C8_NoteWithoutOctave ==
    IsSome(note) =>
        LET k == Unwrap(key)
            d == Unwrap(degree)
        IN  /\ Unwrap(note) = k.root + ScaleTable(k.mode)[((d.degree - 1) % 7) + 1]
                                + d.adj
            /\ (d.degree \in {1, 8, 15} /\ d.adj = 0) => Unwrap(note) = k.root

\* C8 witness: degree 8 has been resolved, to the root itself
C8_Witness ==
    /\ IsSome(note) /\ Unwrap(degree) = Degree(8, 0)
    /\ Unwrap(note) = Unwrap(key).root

\* C9: to_degree, resolved back in the same mode, gives s mod 12 (Euclidean)
C9_ToDegreeInverse ==
    IsSome(back) => Unwrap(back) = Unwrap(interval) % 12

\* C9 witness: a negative interval went through to_degree and back, in minor
C9_Witness ==
    /\ IsSome(back) /\ Unwrap(interval) < 0 /\ Unwrap(key).mode = "Minor"
    /\ Unwrap(degree_res).adj # 0

-----------------------------------------------------------------------------
(* The builder API, then Display, then FromStr on the rendered text *)

MaxRootAdj == 2        \* ChordSpec::adj takes -MaxRootAdj..MaxRootAdj
MaxShift == 1          \* the root stays within MaxShift octaves of that
MaxExt == 1            \* extensions added by ChordSpec::add
MaxInversion == 1      \* ChordSpec::inversion takes 0..MaxInversion

\* ChordSpec::new and key_of take any usize, 0 included
RootDegrees == {0, 1, 5}
ExtDegrees == {7, 9}
ExtAdjs == {-1, 0}
BassDegrees == {3, 5}
RelKeys == {<<5, "Major">>, <<2, "Minor">>, <<0, "Major">>}

notChord == <<scaleVars, voiceVars, genVars, gridVars, pureVars, appVars>>

ChordInit ==
    /\ \E d \in RootDegrees, m \in Modes : cs = Some(ChordSpec_new(d, m))
    /\ text = None /\ parsed = None /\ ivs = None /\ pc = "build"
    /\ ScaleIdle /\ VoiceIdle /\ GenIdle /\ GridIdle /\ PureIdle /\ AppIdle

Build(c) ==
    /\ pc = "build"
    /\ cs' = Some(c)
    /\ UNCHANGED <<text, parsed, ivs, pc, notChord>>

BuildTriad == \E t \in Triads : Build(ChordSpec_triad(Unwrap(cs), t))

BuildAdd ==
    /\ Len(Unwrap(cs).extensions) < MaxExt
    /\ \E d \in ExtDegrees, a \in ExtAdjs : Build(ChordSpec_add(Unwrap(cs), d, a))

BuildBass == \E d \in BassDegrees : Build(ChordSpec_bass(Unwrap(cs), d, 0))

BuildKeyOf == \E k \in RelKeys : Build(ChordSpec_key_of(Unwrap(cs), k[1], k[2]))

BuildAdj == \E a \in -MaxRootAdj..MaxRootAdj : Build(ChordSpec_adj(Unwrap(cs), a))

BuildShift ==
    \E o \in {-1, 1} :
        /\ Abs(Unwrap(cs).root.adj + 12 * o) <= 12 * MaxShift + MaxRootAdj
        /\ Build(ChordSpec_shift(Unwrap(cs), o))

BuildInversion ==
    \E n \in 0..MaxInversion : Build(ChordSpec_inversion(Unwrap(cs), n))

\* cs.to_string(): the text, or on a degree of 0 the abort of Display in a
\* build with overflow checks
Render ==
    /\ pc = "build"
    /\ \/ /\ ChordSpec_fmt_panics(Unwrap(cs))
          /\ pc' = "aborted"
          /\ UNCHANGED text
       \/ /\ text' = Some(ChordSpec_fmt(Unwrap(cs)))
          /\ pc' = "rendered"
    /\ UNCHANGED <<cs, parsed, ivs, notChord>>

\* ChordSpec::from_str(&text)
FromStr ==
    /\ pc \in {"rendered", "typed"}
    /\ parsed' = Some(ChordSpec_from_str(Unwrap(text)))
    /\ pc' = "parsed"
    /\ UNCHANGED <<cs, text, ivs, notChord>>

ChordNext ==
    \/ BuildTriad \/ BuildAdd \/ BuildBass \/ BuildKeyOf \/ BuildAdj
    \/ BuildShift \/ BuildInversion
    \/ Render
    \/ FromStr

SpecChord == ChordInit /\ [][ChordNext]_vars

\* C2: the rendered text of a ChordSpec made by the builder API parses, and
\* parses to the ChordSpec it was rendered from
C2_RoundTrip ==
    (pc = "parsed" /\ IsSome(cs)) =>
        /\ Unwrap(parsed).ok
        /\ Unwrap(parsed).val = cs

-----------------------------------------------------------------------------
(* Chord texts as typed or read from a template, parsed and resolved *)

MaxTextLen == 2        \* typed texts of up to MaxTextLen characters


\* the examples of test_chord_intervals, and "i-:7" .. "I^:b7,9" of the documentation
DocumentedChords ==
    { <<"I">>, <<"I", ":", "6">>, <<"I", ":", "6", ",", "9">>, <<"I", ":", "7">>,
      <<"I", ":", "7", ",", "9">>, <<"I", ":", "b", "7">>,
      <<"I", ":", "b", "7", ",", "9">>, <<"I", ":", "b", "9">>, <<"I", ":", "9">>,
      <<"I", "+">>, <<"I", "+", ":", "b", "7">>, <<"I", "+", ":", "9">>,
      <<"I", "_">>, <<"I", "^">>, <<"I", "^", ":", "b", "7", ",", "9">>,
      <<"I", "5">>, <<"i">>, <<"i", ":", "#", "6">>, <<"i", ":", "7">>,
      <<"i", ":", "7", ",", "#", "9">>, <<"i", ":", "#", "7">>,
      <<"i", ":", "#", "7", ",", "#", "9">>, <<"i", "-">>,
      <<"i", "-", ":", "b", "7">>, <<"i", "-", ":", "7">> }

TypedChars == {"I", "V", "i", "b", "-", "5", ":", "7", "0", "/", "%", "~"}

\* chords typed with a degree of 0 as extension or as bass
ZeroDegreeChords == { <<"I", ":", "0">>, <<"i", ":", "7", ",", "0">>, <<"V", "/", "0">> }

TypedTexts ==
    DocumentedChords \cup ZeroDegreeChords
        \cup UNION {[1..n -> TypedChars] : n \in 0..MaxTextLen}

ParseInit ==
    /\ \E t \in TypedTexts : text = Some(t)
    /\ cs = None /\ parsed = None /\ ivs = None /\ pc = "typed"
    /\ ScaleIdle /\ VoiceIdle /\ GenIdle /\ GridIdle /\ PureIdle /\ AppIdle

\* chord.intervals() on the parsed chord
Intervals ==
    /\ pc = "parsed" /\ Unwrap(parsed).ok
    /\ ivs' = LET c == Unwrap(Unwrap(parsed).val)
              IN  Some(IF intervals_panics(c) THEN Panicked
                       ELSE Returned(intervals(c)))
    /\ pc' = "resolved"
    /\ UNCHANGED <<cs, text, parsed, notChord>>

ParseNext ==
    \/ FromStr
    \/ Intervals

SpecParse == ParseInit /\ [][ParseNext]_vars

IntervalsOf(t, is) ==
    (pc = "resolved" /\ text = Some(t)) => ivs = Some(Returned(is))

\* C10 as stated: "I" gives [0,4,7], "i-:7" gives [0,3,6,9] and "I^:b7,9" gives
\* [0,5,7,10,14]
C10_DocumentedIntervals ==
    /\ IntervalsOf(<<"I">>, <<0, 4, 7>>)
    /\ IntervalsOf(<<"i", "-", ":", "7">>, <<0, 3, 6, 9>>)
    /\ IntervalsOf(<<"I", "^", ":", "b", "7", ",", "9">>, <<0, 5, 7, 10, 14>>)

\* C10 as amended: "I" gives [0,4,7], "i-:7" gives [0,3,6,10] (it is "i-:b7" that
\* gives [0,3,6,9]) and "I^:b7,9" gives [0,5,7,10,14]
C10_TestedIntervals ==
    /\ IntervalsOf(<<"I">>, <<0, 4, 7>>)
    /\ IntervalsOf(<<"i", "-", ":", "7">>, <<0, 3, 6, 10>>)
    /\ IntervalsOf(<<"i", "-", ":", "b", "7">>, <<0, 3, 6, 9>>)
    /\ IntervalsOf(<<"I", "^", ":", "b", "7", ",", "9">>, <<0, 5, 7, 10, 14>>)

\* C17: every text parses to an error or to a ChordSpec whose root, extension
\* and bass degrees are all at least 1, and intervals() on a parsed ChordSpec
\* returns
C17_ParsedDegreesPositive ==
    /\ (pc \in {"parsed", "resolved"} /\ Unwrap(parsed).ok) =>
          LET c == Unwrap(Unwrap(parsed).val)
          IN  /\ c.root.degree >= 1
              /\ \A i \in 1..Len(c.extensions) : c.extensions[i].degree >= 1
              /\ IsSome(c.bass_degree) => Unwrap(c.bass_degree).degree >= 1
    /\ pc = "resolved" => ~Unwrap(ivs).panicked

\* C10 witness: "i-:7" was parsed and its intervals computed
C10_Witness ==
    /\ pc = "resolved" /\ text = Some(<<"i", "-", ":", "7">>)
    /\ Unwrap(parsed).ok
    /\ ivs = Some(Returned(<<0, 3, 6, 10>>))

-----------------------------------------------------------------------------
(* voice_lead over lists of chords *)

MaxChords == 3         \* voice_lead takes lists of up to MaxChords chords

\* a chord written as in a template file: text.try_into().unwrap()
ChordOf(t) == Unwrap(ChordSpec_from_str(t).val)

\* "I", "I5", "I>1", "V:7", "vi", and ChordSpec::new(0, Mode::Major)
VoiceChords ==
    { ChordOf(<<"I">>), ChordOf(<<"I", "5">>), ChordOf(<<"I", ">", "1">>),
      ChordOf(<<"V", ":", "7">>), ChordOf(<<"v", "i">>), ChordSpec_new(0, "Major") }

notVoice == <<scaleVars, chordVars, genVars, gridVars, pureVars, appVars>>

VoiceInit ==
    /\ chords = <<>> /\ led = None
    /\ ScaleIdle /\ ChordIdle /\ GenIdle /\ GridIdle /\ PureIdle /\ AppIdle

\* the caller builds the input list
PushChord ==
    /\ led = None /\ Len(chords) < MaxChords
    /\ \E c \in VoiceChords : chords' = Append(chords, c)
    /\ UNCHANGED <<led, notVoice>>

\* voice_lead(&chords)
VoiceLead ==
    /\ led = None
    /\ led' = Some(voice_lead(chords))
    /\ UNCHANGED <<chords, notVoice>>

VoiceNext ==
    \/ PushChord
    \/ VoiceLead

SpecVoice == VoiceInit /\ [][VoiceNext]_vars

\* C5: voice_lead returns, for every input list, a list of the same length whose
\* first element is the first input element; the empty list gives the empty list
C5_SameLengthFirstKept ==
    IsSome(led) =>
        /\ ~Unwrap(led).panicked
        /\ LET out == Unwrap(Unwrap(led).val)
           IN  /\ Len(out) = Len(chords)
               /\ chords # <<>> => out[1] = chords[1]
               /\ chords = <<>> => out = <<>>

\* the candidates the claim C6 names: shifts -1, 0 and +1, each with its inversions
ThreeOctaveCands(c) ==
    inversions(ChordSpec_shift(c, -1)) \o inversions(ChordSpec_shift(c, 0))
        \o inversions(ChordSpec_shift(c, 1))

\* C6: every output element after the first is the first candidate, among the
\* inversions of the input chord shifted by -1, 0 and +1 octaves, of minimum
\* distance to the output element before it
C6_MinOverThreeOctaves ==
    (IsSome(led) /\ ~Unwrap(led).panicked) =>
        LET out == Unwrap(Unwrap(led).val)
        IN  \A k \in 2..Len(out) :
                LET cands == ThreeOctaveCands(chords[k])
                    ds == [i \in 1..Len(cands) |-> distance(cands[i], out[k - 1])]
                IN  out[k] = cands[FirstMin(ds)]

-----------------------------------------------------------------------------
(* progression/mod.rs: the Progression grid *)

Durations == {"Quarter", "Eighth", "Sixteenth", "ThirtySecond"}

\* Duration::ticks_per_bar
Duration_ticks_per_bar(d) ==
    CASE d = "Quarter" -> 4
      [] d = "Eighth" -> 8
      [] d = "Sixteenth" -> 16
      [] d = "ThirtySecond" -> 32

\* index_chords: the 0-based positions of the slots holding a chord, in order
index_chords(seq) ==
    SelectSeq([i \in 1..Len(seq) |-> i - 1], LAMBDA i : seq[i + 1] # None)

\* Progression::new
Progression_new(seq, res) ==
    [resolution |-> res, sequence |-> seq, chord_index |-> index_chords(seq)]

\* Progression::update_chords
Progression_update_chords(p) ==
    [p EXCEPT !.chord_index = index_chords(p.sequence)]

\* Progression::set_chord aborts on a chord_idx outside chord_index
Progression_set_chord_panics(p, chord_idx) ==
    chord_idx >= Len(p.chord_index)

\* a set_chord that writes the slot at tick chord_idx
Progression_set_chord_at_tick(p, chord_idx, chord) ==
    [p EXCEPT !.sequence[chord_idx + 1] = Some(chord)]

\* Progression::set_chord
Progression_set_chord(p, chord_idx, chord) ==
    [p EXCEPT !.sequence[p.chord_index[chord_idx + 1] + 1] = Some(chord)]

\* Progression::delete_chord_at
Progression_delete_chord_at(p, seq_idx) ==
    Progression_update_chords([p EXCEPT !.sequence[seq_idx + 1] = None])

\* Progression::insert_chord_at without its update_chords
Progression_insert_chord_at_stale(p, seq_idx, chord) ==
    [p EXCEPT !.sequence[seq_idx + 1] = Some(chord)]

\* Progression::insert_chord_at
Progression_insert_chord_at(p, seq_idx, chord) ==
    Progression_update_chords([p EXCEPT !.sequence[seq_idx + 1] = Some(chord)])

\* Progression::chords: the slots chord_index names, those holding None dropped
Progression_chords(p) ==
    LET slots == [k \in 1..Len(p.chord_index) |-> p.sequence[p.chord_index[k] + 1]]
        some == SelectSeq(slots, IsSome)
    IN  [k \in 1..Len(some) |-> Unwrap(some[k])]

\* the loop of Progression::voice_lead: prog.set_chord(i, chord) for the i-th
\* voice-led chord, from the k-th on
RECURSIVE SetChords(_, _, _)
SetChords(prog, ledChords, k) ==
    IF k > Len(ledChords) THEN Returned(prog)
    ELSE IF Progression_set_chord_panics(prog, k - 1) THEN Panicked
    ELSE SetChords(Progression_set_chord(prog, k - 1, ledChords[k]), ledChords, k + 1)

\* Progression::voice_lead
Progression_voice_lead(p) ==
    IF p.chord_index = <<>> THEN Returned(p)
    ELSE LET r == voice_lead(Progression_chords(p))
         IN  IF r.panicked THEN Panicked
             ELSE SetChords(p, Unwrap(r.val), 1)

MaxTicks == 3          \* grids of up to MaxTicks ticks

GridResolutions == {"Quarter", "Eighth"}

\* "I", "V:7"
GridChords == { ChordOf(<<"I">>), ChordOf(<<"V", ":", "7">>) }

GridSlots == {None} \cup {Some(c) : c \in GridChords}

\* the Progression the grid variables hold
Prog == [resolution |-> resolution, sequence |-> sequence,
         chord_index |-> chord_index]

notGrid == <<scaleVars, chordVars, voiceVars, genVars, pureVars, appVars>>

\* Progression::new(seq, res)
GridInit ==
    /\ \E res \in GridResolutions, n \in 0..MaxTicks :
         \E seq \in [1..n -> GridSlots] :
            /\ resolution = Progression_new(seq, res).resolution
            /\ sequence = Progression_new(seq, res).sequence
            /\ chord_index = Progression_new(seq, res).chord_index
    /\ grid_op = "new" /\ vl_prog = None
    /\ ScaleIdle /\ ChordIdle /\ VoiceIdle /\ GenIdle /\ PureIdle /\ AppIdle

\* the grid after a &mut self method, op naming the method
Mutated(p, op) ==
    /\ resolution' = p.resolution
    /\ sequence' = p.sequence
    /\ chord_index' = p.chord_index
    /\ grid_op' = op
    /\ UNCHANGED <<vl_prog, notGrid>>

\* prog.insert_chord_at(seq_idx, chord), seq_idx within the sequence
InsertChordAt ==
    \E seq_idx \in 0..(Len(sequence) - 1), c \in GridChords :
        Mutated(Progression_insert_chord_at(Prog, seq_idx, c), "insert")

\* prog.delete_chord_at(seq_idx), seq_idx within the sequence
DeleteChordAt ==
    \E seq_idx \in 0..(Len(sequence) - 1) :
        Mutated(Progression_delete_chord_at(Prog, seq_idx), "delete")

\* prog.set_chord(chord_idx, chord), chord_idx within chord_index
SetChord ==
    \E chord_idx \in 0..(Len(chord_index) - 1), c \in GridChords :
        /\ ~Progression_set_chord_panics(Prog, chord_idx)
        /\ Mutated(Progression_set_chord(Prog, chord_idx, c), "set")

\* let vl_prog = prog.voice_lead(): the receiver before and after the call, and
\* what the call gave
GridVoiceLead ==
    /\ UNCHANGED <<resolution, sequence, chord_index, grid_op, notGrid>>
    /\ vl_prog' = Some([out |-> Progression_voice_lead(Prog),
                        before |-> Prog,
                        after |-> [resolution |-> resolution',
                                   sequence |-> sequence',
                                   chord_index |-> chord_index']])

GridNext ==
    \/ InsertChordAt
    \/ DeleteChordAt
    \/ SetChord
    \/ GridVoiceLead

SpecGrid == GridInit /\ [][GridNext]_vars

\* the tick positions of a sequence that hold a chord
SomeTicks(seq) == {t \in 0..(Len(seq) - 1) : seq[t + 1] # None}

\* C1: after Progression::new and any insert_chord_at, delete_chord_at and
\* set_chord calls with in-range arguments, chord_index is the ascending list of
\* exactly the tick positions whose slot holds a chord
C1_ChordIndexTracksSequence ==
    grid_op # "idle" =>
        /\ Range(chord_index) = SomeTicks(sequence)
        /\ Len(chord_index) = Cardinality(SomeTicks(sequence))
        /\ \A i, j \in 1..Len(chord_index) : i < j => chord_index[i] < chord_index[j]

\* C1 witness: a delete has left a rest between two chords, and chord_index
\* names the two chords
C1_Witness ==
    /\ grid_op = "delete"
    /\ Len(sequence) = 3 /\ sequence[2] = None
    /\ chord_index = <<0, 2>>

\* C7: Progression.voice_lead() returns a Progression of the same resolution and
\* length, with None at the same ticks, whose chords in tick order are
\* voice_lead of the original's chords in tick order; the original is unchanged
C7_VoiceLeadFrame ==
    IsSome(vl_prog) =>
        LET p == Unwrap(vl_prog).before
            r == Unwrap(vl_prog).out
            inOrder(q) == [k \in 1..Len(index_chords(q.sequence)) |->
                              Unwrap(q.sequence[index_chords(q.sequence)[k] + 1])]
        IN  /\ ~r.panicked
            /\ Unwrap(r.val).resolution = p.resolution
            /\ Len(Unwrap(r.val).sequence) = Len(p.sequence)
            /\ \A t \in 1..Len(p.sequence) :
                   (Unwrap(r.val).sequence[t] = None) <=> (p.sequence[t] = None)
            /\ Returned(inOrder(Unwrap(r.val))) = voice_lead(inOrder(p))
            /\ Unwrap(vl_prog).after = p

-----------------------------------------------------------------------------
(* progression/template.rs: the transition map and the generator.           *)
(* Times are f64 beats.  A finite f64 x >= 0 is held as the three digits,   *)
(* least first and F64Base each, of the whole number x * 2^55; the last     *)
(* digit may exceed F64Base.  Infinity is F64Inf.  Every operation rounds   *)
(* to 53 significant bits, ties to even, as the hardware does.  The digits  *)
(* are exact for templates of resolution 0..32, times below 256 beats and   *)
(* sequences of fewer than 1000 ticks.                                      *)

BEATS_PER_BAR == 4
TIMING_FACTORS == <<1, 2, 3, 4, 5, 6, 7, 8>>

F64Base == 2097152     \* 2^21
F64Zero == <<0, 0, 0>>
F64Inf == <<>>
F64Neg == <<-1>>       \* a negative f64 or NaN: "as usize" gives 0 for both
UsizeMax == 2147483647 \* stands for 2^64 - 1, what "as usize" gives for infinity

\* the digits x1, x2, x3 with the carries (or borrows) moved up
BigNorm(x1, x2, x3) ==
    <<x1 % F64Base, (x2 + x1 \div F64Base) % F64Base,
      x3 + (x2 + x1 \div F64Base) \div F64Base>>

\* exact sum, difference (a >= b) and product with a whole number below 1024
BigAdd(a, b) == BigNorm(a[1] + b[1], a[2] + b[2], a[3] + b[3])
BigSub(a, b) == BigNorm(a[1] - b[1], a[2] - b[2], a[3] - b[3])
BigMul(a, n) == BigNorm(a[1] * n, a[2] * n, a[3] * n)

BigLe(a, b) ==
    IF a[3] # b[3] THEN a[3] < b[3]
    ELSE IF a[2] # b[2] THEN a[2] < b[2]
    ELSE a[1] <= b[1]

\* the number of binary digits of a whole number
RECURSIVE BitLen(_)
BitLen(x) == IF x = 0 THEN 0 ELSE 1 + BitLen(x \div 2)

\* the digits a with the bits below w = 2^k cleared, rounded to the nearest
\* multiple of w, ties to the even one
BigRoundTo(a, w) ==
    LET low == a[1] % w
        up == 2 * low > w \/ (2 * low = w /\ (a[1] \div w) % 2 = 1)
    IN  BigNorm(a[1] - low + (IF up THEN w ELSE 0), a[2], a[3])

\* the digits a rounded to 53 significant bits, 11 of them in the last digit
F64Round(a) == IF a[3] < 2048 THEN a ELSE BigRoundTo(a, 2^BitLen(a[3] \div 2048))

\* "n as f64" for a usize n below 256
F64OfUsize(n) == <<0, 0, n * 8192>>

\* the whole number h * F64Base^2 divided by r in 1..32: the quotient's digits
\* and the remainder
BigDivSmall(h, r) ==
    LET c2 == (h % r) * F64Base
        c1 == (c2 % r) * F64Base
    IN  << <<c1 \div r, c2 \div r, h \div r>>, c1 % r >>

\* the mantissa m = d[1], of remainder d[2] under the divisor r, rounded
BigRoundQuot(d, r) ==
    IF 2 * d[2] > r \/ (2 * d[2] = r /\ d[1][1] % 2 = 1)
    THEN BigAdd(d[1], <<1, 0, 0>>) ELSE d[1]

\* the f64 quotient 4.0 / r for r in 1..32: with 2^p <= 4 / r < 2^(p + 1) the
\* 53-bit mantissa is 2^(54 - p) / r rounded, worth 2^(p - 52) a unit
F64FourOver(r) ==
    LET p == 2 - BitLen(r - 1)
    IN  BigMul(BigRoundQuot(BigDivSmall(2^(12 - p), r), r), 2^(p + 3))

\* f64 addition of values that are not negative
F64Add(a, b) == IF a = F64Inf \/ b = F64Inf THEN F64Inf ELSE F64Round(BigAdd(a, b))

\* f64 subtraction of values that are not negative
F64Sub(a, b) ==
    IF b = F64Inf THEN F64Neg
    ELSE IF a = F64Inf THEN F64Inf
    ELSE IF BigLe(b, a) THEN F64Round(BigSub(a, b))
    ELSE F64Neg

\* the f64 product of a factor of TIMING_FACTORS and x
F64Mul(factor, x) == IF x = F64Inf THEN F64Inf ELSE F64Round(BigMul(x, factor))

\* a >= b on f64 values that are not negative
F64Ge(a, b) == IF a = F64Inf THEN TRUE ELSE IF b = F64Inf THEN FALSE ELSE BigLe(b, a)

\* the whole part of the exact quotient a / b, b > 0, sought from q up
RECURSIVE BigQuotFrom(_, _, _)
BigQuotFrom(a, b, q) ==
    IF BigLe(BigMul(b, q + 1), a) THEN BigQuotFrom(a, b, q + 1) ELSE q

\* the f64 quotient of a by b is the whole number q + 1 when the exact one, of
\* whole part q, lies within half a unit in the last place below q + 1: when
\* (q + 1) * b - a is at most b / 2^(54 - BitLen(q))
F64QuotRoundsUp(a, b, q) ==
    LET d == BigSub(BigMul(b, q + 1), a)
    IN  d[3] = 0 /\ d[2] = 0 /\ d[1] <= b[3] \div 2^(12 - BitLen(q))

\* "(a / b) as usize" for finite a >= 0 and b > 0
F64TruncQuot(a, b) ==
    LET q == BigQuotFrom(a, b, a[3] \div (b[3] + 1))
    IN  IF F64QuotRoundsUp(a, b, q) THEN q + 1 ELSE q

\* "(x / time_unit) as usize": a negative quotient or NaN gives 0, infinity
\* gives the largest usize
F64DivAsUsize(x, time_unit) ==
    IF x = F64Neg THEN 0
    ELSE IF time_unit = F64Inf THEN 0
    ELSE IF time_unit = F64Zero THEN (IF x = F64Zero THEN 0 ELSE UsizeMax)
    ELSE IF x = F64Inf THEN UsizeMax
    ELSE F64TruncQuot(x, time_unit)

\* the three chords update_transitions pushes for position i (1-based) of a
\* pattern: the chord, then its two neighbours
PatternNext(pattern, i) ==
    IF i = 1 THEN <<pattern[1], pattern[Len(pattern)], pattern[2]>>
    ELSE IF i = Len(pattern) THEN <<pattern[i], pattern[1], pattern[i - 1]>>
    ELSE <<pattern[i], pattern[i - 1], pattern[i + 1]>>

\* an entry replaced by the pushes of the last occurrence of its name
PushTransitions_replace(trans, name, items) ==
    IF \E k \in 1..Len(trans) : trans[k].name = name
    THEN LET k == CHOOSE k \in 1..Len(trans) : trans[k].name = name
         IN  [trans EXCEPT ![k].next = items]
    ELSE Append(trans, [name |-> name, next |-> items])

\* transitions.entry(name).or_insert(vec![]) followed by the pushes; the map is
\* a list of [name, next] entries, one per name
PushTransitions(trans, name, items) ==
    IF \E k \in 1..Len(trans) : trans[k].name = name
    THEN LET k == CHOOSE k \in 1..Len(trans) : trans[k].name = name
         IN  [trans EXCEPT ![k].next = @ \o items]
    ELSE Append(trans, [name |-> name, next |-> items])

\* an entry for the first chord of the pattern only
UpdateFromPattern_first(trans, pattern, i) ==
    PushTransitions(trans, ChordSpec_fmt(pattern[1]), PatternNext(pattern, 1))

\* the inner loop of ModeTemplate::update_transitions, from position i on
RECURSIVE UpdateFromPattern(_, _, _)
UpdateFromPattern(trans, pattern, i) ==
    IF i > Len(pattern) THEN trans
    ELSE UpdateFromPattern(
            PushTransitions(trans, ChordSpec_fmt(pattern[i]), PatternNext(pattern, i)),
            pattern, i + 1)

\* the outer loop of ModeTemplate::update_transitions, from pattern p on
RECURSIVE UpdateFromPatterns(_, _, _)
UpdateFromPatterns(trans, patterns, p) ==
    IF p > Len(patterns) THEN trans
    ELSE UpdateFromPatterns(UpdateFromPattern(trans, patterns[p], 1), patterns, p + 1)

\* ModeTemplate::update_transitions aborts on pattern[i+1] for a pattern of one chord
ModeTemplate_update_transitions_panics(mt) ==
    \E p \in 1..Len(mt.patterns) : Len(mt.patterns[p]) = 1

\* update_transitions without the clear() of its first line
ModeTemplate_update_transitions_keep(mt) ==
    [mt EXCEPT !.transitions = UpdateFromPatterns(mt.transitions, mt.patterns, 1)]

\* ModeTemplate::update_transitions
ModeTemplate_update_transitions(mt) ==
    [mt EXCEPT !.transitions = UpdateFromPatterns(<<>>, mt.patterns, 1)]

\* ModeTemplate::next
ModeTemplate_next(mt, chord) ==
    LET name == ChordSpec_fmt(chord)
    IN  IF \E k \in 1..Len(mt.transitions) : mt.transitions[k].name = name
        THEN mt.transitions[CHOOSE k \in 1..Len(mt.transitions) :
                                mt.transitions[k].name = name].next
        ELSE <<>>

\* ProgressionTemplate::update_transitions
ProgressionTemplate_update_transitions(t) ==
    [t EXCEPT !.major = ModeTemplate_update_transitions(t.major),
              !.minor = ModeTemplate_update_transitions(t.minor)]

\* ProgressionTemplate::next
ProgressionTemplate_next(t, chord, mode) ==
    IF mode = "Major" THEN ModeTemplate_next(t.major, chord)
    ELSE ModeTemplate_next(t.minor, chord)

\* the patterns rand_pattern chooses from
PatternsOf(t, mode) == IF mode = "Major" THEN t.major.patterns ELSE t.minor.patterns

\* ProgressionTemplate::time_unit: BEATS_PER_BAR as f64 / resolution as f64
ProgressionTemplate_time_unit(t) ==
    IF t.resolution = 0 THEN F64Inf ELSE F64FourOver(t.resolution)

\* the candidates of one step of the walk of gen_progression, 0-based
WalkCands_skip(i, n_chords) ==
    <<(i - 1) % n_chords, i % n_chords, (i + 2) % n_chords>>

WalkCands(i, n_chords) ==
    <<(i - 1) % n_chords, i % n_chords, (i + 1) % n_chords>>

\* timed_to_sequence from entry i (1-based) on.  A usize subtraction below 0
\* aborts a checked build; an unchecked build wraps to a count of rests near
\* 2^64 and aborts for lack of memory, as a count of UsizeMax does: all are
\* Panicked.
RECURSIVE TimedFrom(_, _, _, _, _, _)
TimedFrom(seq, last_beat, i, timed, bars, time_unit) ==
    IF i > Len(timed) THEN Returned(seq)
    ELSE LET beat == F64Add(last_beat, timed[i][2])
             n_rests == IF i = 1 THEN F64DivAsUsize(beat, time_unit)
                        ELSE F64DivAsUsize(F64Sub(beat, last_beat), time_unit) - 1
             total_beats == F64OfUsize(bars * BEATS_PER_BAR)
             fill == F64DivAsUsize(F64Sub(total_beats, beat), time_unit) - 1
         IN  IF n_rests < 0 \/ n_rests >= UsizeMax - 1 THEN Panicked
             ELSE IF i = Len(timed)
             THEN IF fill < 0 \/ fill >= UsizeMax - 1 THEN Panicked
                  ELSE Returned(seq \o Repeat(None, n_rests) \o <<Some(timed[i][1])>>
                                    \o Repeat(None, fill))
             ELSE TimedFrom(seq \o Repeat(None, n_rests) \o <<Some(timed[i][1])>>,
                            beat, i + 1, timed, bars, time_unit)

\* timed_to_sequence with a rest before the first chord
timed_to_sequence_late(bars, time_unit, timed) ==
    TimedFrom(<<None>>, F64Zero, 1, timed, bars, time_unit)

\* timed_to_sequence
timed_to_sequence(bars, time_unit, timed) ==
    TimedFrom(<<>>, F64Zero, 1, timed, bars, time_unit)

\* the Durations a template of resolution r ticks a bar may stand for: the one
\* of r ticks a bar, any of them when there is none
DurationsOf(r) ==
    IF \E d \in Durations : Duration_ticks_per_bar(d) = r
    THEN {d \in Durations : Duration_ticks_per_bar(d) = r}
    ELSE Durations

\* the last line of gen_progression.  It hands Progression::new the sequence,
\* bars and the time unit, where Progression::new takes the sequence seq and a
\* Duration res.
gen_progression_result(seq, res) ==
    IF seq.panicked THEN Panicked
    ELSE Returned(Progression_new(Unwrap(seq.val), res))

MaxBars == 1           \* gen_progression takes 0..MaxBars bars

Pattern(texts) == [i \in 1..Len(texts) |-> ChordOf(texts[i])]

ModeTemplateOf(patterns) == [patterns |-> patterns, transitions |-> <<>>]

\* the patterns of test_chord_progression with a minor side ("i iv v") at
\* three ticks a bar, a template in quarter notes whose patterns share a chord ("I IV"
\* and "I V"; "i VI"), and one of five ticks a bar that repeats one chord
Templates ==
    { [resolution |-> 3,
       major |-> ModeTemplateOf(<< Pattern(<< <<"I">>, <<"V">>, <<"v", "i">>,
                                              <<"I", "V">> >>) >>),
       minor |-> ModeTemplateOf(<< Pattern(<< <<"i">>, <<"i", "v">>, <<"v">> >>) >>)],
      [resolution |-> 4,
       major |-> ModeTemplateOf(<< Pattern(<< <<"I">>, <<"I", "V">> >>),
                                   Pattern(<< <<"I">>, <<"V">> >>) >>),
       minor |-> ModeTemplateOf(<< Pattern(<< <<"i">>, <<"V", "I">> >>) >>)],
      [resolution |-> 5,
       major |-> ModeTemplateOf(<< Pattern(<< <<"I">>, <<"I">> >>) >>),
       minor |-> ModeTemplateOf(<< Pattern(<< <<"i">>, <<"i">> >>) >>)] }

notGen == <<scaleVars, chordVars, voiceVars, gridVars, pureVars, appVars>>

\* the template as deserialized: patterns parsed, no transitions yet
GenInit ==
    /\ \E t \in Templates : template = Some(t)
    /\ gen = None
    /\ ScaleIdle /\ ChordIdle /\ VoiceIdle /\ GridIdle /\ PureIdle /\ AppIdle

\* template.update_transitions(), as main does once the template is loaded
UpdateTransitions ==
    /\ gen = None
    /\ ~ModeTemplate_update_transitions_panics(Unwrap(template).major)
    /\ ~ModeTemplate_update_transitions_panics(Unwrap(template).minor)
    /\ template' = Some(ProgressionTemplate_update_transitions(Unwrap(template)))
    /\ UNCHANGED <<gen, notGen>>

\* template.gen_progression(bars, mode) up to the call of gen_timing:
\* rand_pattern has chosen a pattern
GenStartWith(bars) ==
    /\ gen = None
    /\ \E mode \in Modes :
         \E p \in 1..Len(PatternsOf(Unwrap(template), mode)) :
            gen' = Some([pc |-> "timing", i |-> 0, mode |-> mode, out |-> None,
                         pattern |-> PatternsOf(Unwrap(template), mode)[p],
                         bars |-> bars, total |-> F64Zero, timings |-> <<F64Zero>>,
                         progression |-> <<>>])
    /\ UNCHANGED <<template, notGen>>

GenStart == \E bars \in 0..MaxBars : GenStartWith(bars)

\* one round of the loop of gen_timing; its running total is a local of
\* gen_timing, which returns the timings alone
GenTiming ==
    /\ IsSome(gen) /\ Unwrap(gen).pc = "timing"
    /\ \E f \in 1..Len(TIMING_FACTORS) :
         LET g == Unwrap(gen)
             beats == F64Mul(TIMING_FACTORS[f],
                             ProgressionTemplate_time_unit(Unwrap(template)))
             total == F64Add(g.total, beats)
         IN  gen' = Some(IF F64Ge(total, F64OfUsize(g.bars * BEATS_PER_BAR))
                         THEN [g EXCEPT !.total = F64Zero, !.pc = "walk"]
                         ELSE [g EXCEPT !.total = total,
                                        !.timings = Append(@, beats)])
    /\ UNCHANGED <<template, notGen>>

\* one round of the loop of gen_progression over the timings
GenWalk ==
    /\ IsSome(gen) /\ Unwrap(gen).pc = "walk"
    /\ Len(Unwrap(gen).progression) < Len(Unwrap(gen).timings)
    /\ LET g == Unwrap(gen)
           cands == WalkCands(g.i, Len(g.pattern))
       IN  \E c \in 1..Len(cands) :
              gen' = Some([g EXCEPT
                        !.progression =
                            Append(@, <<g.pattern[cands[c] + 1],
                                        g.timings[Len(g.progression) + 1]>>),
                        !.i = cands[c]])
    /\ UNCHANGED <<template, notGen>>

\* Progression::new(timed_to_sequence(..), ..): gen_progression returns
GenFinish ==
    /\ IsSome(gen) /\ Unwrap(gen).pc = "walk"
    /\ Len(Unwrap(gen).progression) = Len(Unwrap(gen).timings)
    /\ LET seq == timed_to_sequence(Unwrap(gen).bars,
                                    ProgressionTemplate_time_unit(Unwrap(template)),
                                    Unwrap(gen).progression)
       IN  \E res \in DurationsOf(Unwrap(template).resolution) :
              gen' = Some([Unwrap(gen) EXCEPT
                             !.pc = "done",
                             !.out = Some(gen_progression_result(seq, res))])
    /\ UNCHANGED <<template, notGen>>

GenNext ==
    \/ UpdateTransitions
    \/ GenStart
    \/ GenTiming
    \/ GenWalk
    \/ GenFinish

SpecGen == GenInit /\ [][GenNext]_vars

\* gen_progression has ended, with or without a Progression
GenDone == IsSome(gen) /\ Unwrap(gen).pc = "done"

\* C3: for every bars >= 0, either mode and every random outcome, gen_progression
\* returns a Progression whose sequence has bars x ticks_per_bar(resolution)
\* slots, the ticks of a bar being the resolution of the template
C3_SequenceLength ==
    GenDone =>
        LET r == Unwrap(Unwrap(gen).out)
        IN  /\ ~r.panicked
            /\ Len(Unwrap(r.val).sequence)
                 = Unwrap(gen).bars * Unwrap(template).resolution

\* the chords of a sequence in tick order
ChordsInTickOrder(seq) ==
    LET some == SelectSeq(seq, IsSome)
    IN  [k \in 1..Len(some) |-> Unwrap(some[k])]

\* the transitions of the template are those update_transitions builds
TransitionsBuilt ==
    Unwrap(template) = ProgressionTemplate_update_transitions(Unwrap(template))

\* C4: in a Progression generated from a template whose transitions were built,
\* every chord after the first is a member of next(the chord before it), unless
\* that list is empty
C4_ChordsFollowTransitions ==
    (GenDone /\ ~Unwrap(Unwrap(gen).out).panicked /\ TransitionsBuilt) =>
        LET cl == ChordsInTickOrder(Unwrap(Unwrap(Unwrap(gen).out).val).sequence)
        IN  \A k \in 2..Len(cl) :
                LET nx == ProgressionTemplate_next(Unwrap(template), cl[k - 1],
                                                   Unwrap(gen).mode)
                IN  nx = <<>> \/ cl[k] \in Range(nx)

\* C4 witness: a generated Progression over built transitions in which a chord
\* follows a different one
C4_Witness ==
    /\ GenDone /\ ~Unwrap(Unwrap(gen).out).panicked /\ TransitionsBuilt
    /\ LET cl == ChordsInTickOrder(Unwrap(Unwrap(Unwrap(gen).out).val).sequence)
       IN  /\ Len(cl) >= 3
           /\ cl[2] # cl[1]
           /\ ProgressionTemplate_next(Unwrap(template), cl[1], Unwrap(gen).mode)
                # <<>>

-----------------------------------------------------------------------------
(* note.rs: Note, its names and its arithmetic *)

NAMES == << <<"A">>, <<"B", "b">>, <<"B">>, <<"C">>, <<"D", "b">>, <<"D">>,
            <<"E", "b">>, <<"E">>, <<"F">>, <<"G", "b">>, <<"G">>, <<"A", "b">> >>

\* char::is_alphabetic on ASCII text
Alphabetic ==
    {"A", "B", "C", "D", "E", "F", "G", "H", "I", "J", "K", "L", "M", "N", "O",
     "P", "Q", "R", "S", "T", "U", "V", "W", "X", "Y", "Z",
     "a", "b", "c", "d", "e", "f", "g", "h", "i", "j", "k", "l", "m", "n", "o",
     "p", "q", "r", "s", "t", "u", "v", "w", "x", "y", "z"}

\* isize division, which truncates towards zero
TruncDiv(a, b) == IF a >= 0 THEN a \div b ELSE -((-a) \div b)

\* isize::to_string
IsizeToString(n) ==
    IF n < 0 THEN <<"-">> \o UsizeToString(-n) ELSE UsizeToString(n)

\* str::parse::<isize>: an optional sign, then at least one digit and nothing
\* but digits
ParseIsize(s) ==
    LET signed == s # <<>> /\ s[1] \in {"+", "-"}
        ds == IF signed THEN Tail(s) ELSE s
    IN  IF ds = <<>> \/ ~(Range(ds) \subseteq DigitSet) THEN None
        ELSE IF signed /\ s[1] = "-" THEN Some(-ParseDigits(ds))
        ELSE Some(ParseDigits(ds))

\* impl Display for Note
Note_fmt(semitones) ==
    LET idx == semitones % 12
        octave == TruncDiv(semitones + 9, 12)
    IN  NAMES[idx + 1] \o IsizeToString(octave)

\* impl FromStr for Note
Note_from_str(s) ==
    LET e == RunEnd(s, 1, Alphabetic)
        name == Slice(s, 1, e)
        octave == ParseIsize(SubSeq(s, e, Len(s)))
    IN  IF \E i \in 1..12 : NAMES[i] = name
        THEN LET offset == (CHOOSE i \in 1..12 : NAMES[i] = name) - 1
             IN  IF ~IsSome(octave) THEN Err("ParseIntError")
                 ELSE Ok((Unwrap(octave) - TruncDiv(offset + 9, 12)) * 12
                         + (offset % 12))
        ELSE Err("InvalidName")

\* Vec::sort_by_key on semitones, ascending
RECURSIVE sort_by_key(_)
sort_by_key(s) ==
    IF s = <<>> THEN <<>>
    ELSE LET m == FirstMin(s) IN <<s[m]>> \o sort_by_key(RemoveAt(s, m))

\* Chord::notes without its sort
Chord_notes_unsorted(ns) == ns

\* Chord::notes on the semitones root + interval of a Chord
Chord_notes(ns) == sort_by_key(ns)

\* Chord::describe_notes
Chord_describe_notes(ns) ==
    LET sorted == Chord_notes(ns)
    IN  [i \in 1..Len(sorted) |-> Note_fmt(sorted[i])] \o <<>>

chord_for_key_panics(c, k) == Key_interval_panics(c.root) \/ intervals_panics(c)

-----------------------------------------------------------------------------
(* A chord text resolved to its notes in a key *)

MaxNotesInv == 3       \* inversion suffixes %1 .. %MaxNotesInv

NotesKeys == [mode : Modes, root : KeyRoots]
NotesNumerals == Range(NUMERALS) \cup {to_lowercase(n) : n \in Range(NUMERALS)}
NotesExts == {<<>>, <<":", "7">>, <<":", "2">>}
NotesSuffixes ==
    {<<>>, <<"/", "3">>, <<"/", "5">>}
        \cup {<<"%">> \o UsizeToString(n) : n \in 1..MaxNotesInv}
NotesTexts ==
    {n \o x \o s : n \in NotesNumerals, x \in NotesExts, s \in NotesSuffixes}

notNotes == <<statefulVars, nameVars, degVars, distVars, transVars, appVars>>

NotesInit ==
    /\ \E k \in NotesKeys : nkey = Some(k)
    /\ ncs = None /\ notes = None
    /\ StatefulIdle /\ NameIdle /\ DegIdle /\ DistIdle /\ TransIdle /\ AppIdle

\* the notes of the chord c in the key k, and their names
NotesIn(c, k) ==
    IF chord_for_key_panics(c, k) THEN Panicked
    ELSE Returned([notes |-> Chord_notes(chord_for_key(c, k)),
                   names |-> Chord_describe_notes(chord_for_key(c, k))])

\* let cs: ChordSpec = t.try_into().unwrap(); cs.chord_for_key(&key).notes()
DescribeNotes(t, res) ==
    /\ notes = None
    /\ res.ok
    /\ ncs' = Some([text |-> t, spec |-> Unwrap(res.val)])
    /\ notes' = Some(NotesIn(Unwrap(res.val), Unwrap(nkey)))
    /\ UNCHANGED <<nkey, notNotes>>

NotesNext == \E t \in NotesTexts : DescribeNotes(t, ChordSpec_from_str(t))

SpecNotes == NotesInit /\ [][NotesNext]_vars

NotesOfText(t) == NotesIn(Unwrap(ChordSpec_from_str(t).val), Unwrap(nkey))

NamesOf(t, names) ==
    (IsSome(ncs) /\ Unwrap(ncs).text = t
        /\ nkey = Some([mode |-> "Major", root |-> 27]))
    => (~Unwrap(notes).panicked /\ Unwrap(Unwrap(notes).val).names = names)

\* C11: for every numeral, in either case and in every key, the %1 form has the
\* notes of the /3 form and the %2 form the notes of the /5 form; in C3 major
\* "I" is [C3,E3,G3], "I/3" and "I%1" are [E3,G3,C4], "I/5" and "I%2" are
\* [G3,C4,E4]
C11_InversionsMatchBass ==
    /\ \A n \in NotesNumerals :
        /\ (IsSome(ncs) /\ Unwrap(ncs).text = n \o <<"%", "1">>)
            => (/\ ~Unwrap(notes).panicked
                /\ Unwrap(notes) = NotesOfText(n \o <<"/", "3">>))
        /\ (IsSome(ncs) /\ Unwrap(ncs).text = n \o <<"%", "2">>)
            => (/\ ~Unwrap(notes).panicked
                /\ Unwrap(notes) = NotesOfText(n \o <<"/", "5">>))
    /\ NamesOf(<<"I">>, << <<"C", "3">>, <<"E", "3">>, <<"G", "3">> >>)
    /\ NamesOf(<<"I", "/", "3">>, << <<"E", "3">>, <<"G", "3">>, <<"C", "4">> >>)
    /\ NamesOf(<<"I", "%", "1">>, << <<"E", "3">>, <<"G", "3">>, <<"C", "4">> >>)
    /\ NamesOf(<<"I", "/", "5">>, << <<"G", "3">>, <<"C", "4">>, <<"E", "4">> >>)
    /\ NamesOf(<<"I", "%", "2">>, << <<"G", "3">>, <<"C", "4">>, <<"E", "4">> >>)

\* C11 witness: "vi%2" resolved in a minor key on C4, with the notes of "vi/5"
C11_Witness ==
    /\ nkey = Some([mode |-> "Minor", root |-> 39])
    /\ IsSome(ncs) /\ Unwrap(ncs).text = <<"v", "i", "%", "2">>
    /\ ~Unwrap(notes).panicked
    /\ Unwrap(notes) = NotesOfText(<<"v", "i", "/", "5">>)
    /\ Len(Unwrap(Unwrap(notes).val).notes) = 3

-----------------------------------------------------------------------------
(* A ModeTemplate as loaded from a file: update_transitions, then next *)

MaxPatternLen == 3     \* patterns of 1..MaxPatternLen chords

\* the chords of the patterns, and a chord that is in no pattern
TransChords == {ChordOf(<<"I">>), ChordOf(<<"V">>)}
TransUnknown == ChordOf(<<"v", "i">>)
TransPatterns == UNION {[1..n -> TransChords] : n \in 1..MaxPatternLen}
\* a mode of one pattern or of two
TransModes == {<<p>> : p \in TransPatterns}
                \cup {<<p, q>> : p \in TransPatterns, q \in TransPatterns}

notTrans == <<statefulVars, notesVars, nameVars, degVars, distVars, appVars>>

TransInit ==
    /\ \E ps \in TransModes : mode_template = Some(ModeTemplateOf(ps))
    /\ next_res = None
    /\ StatefulIdle /\ NotesIdle /\ NameIdle /\ DegIdle /\ DistIdle /\ AppIdle

\* mode_template.update_transitions()
ModeUpdateTransitions ==
    /\ next_res = None
    /\ IF ModeTemplate_update_transitions_panics(Unwrap(mode_template))
       THEN /\ next_res' = Some([out |-> Panicked, chord |-> None,
                                 op |-> "update_transitions"])
            /\ UNCHANGED mode_template
       ELSE /\ next_res' = Some([out |-> Returned(<<>>), chord |-> None,
                                 op |-> "update_transitions"])
            /\ mode_template' =
                 Some(ModeTemplate_update_transitions(Unwrap(mode_template)))
    /\ UNCHANGED notTrans

\* mode_template.next(&c), once update_transitions has returned
ModeNext(c) ==
    /\ IsSome(next_res) /\ ~Unwrap(next_res).out.panicked
    /\ next_res' = Some([out |-> Returned(ModeTemplate_next(Unwrap(mode_template), c)),
                         chord |-> Some(c), op |-> "next"])
    /\ UNCHANGED <<mode_template, notTrans>>

TransNext ==
    \/ ModeUpdateTransitions
    \/ \E c \in TransChords \cup {TransUnknown} : ModeNext(c)

SpecTrans == TransInit /\ [][TransNext]_vars

\* C29: once update_transitions has returned, every chord in a candidate list
\* has an entry of its own with candidates, and so has every pattern chord:
\* whatever next() returns for a pattern chord, next() of each of its candidates
\* is not empty, and the walk never reaches a chord without candidates
C29_CandidatesHaveEntries ==
    (IsSome(next_res) /\ ~Unwrap(next_res).out.panicked) =>
        LET mt == Unwrap(mode_template)
            tr == mt.transitions
        IN  /\ \A k \in 1..Len(tr) : \A i \in 1..Len(tr[k].next) :
                  /\ \E j \in 1..Len(tr) :
                        tr[j].name = ChordSpec_fmt(tr[k].next[i]) /\ tr[j].next # <<>>
                  /\ ModeTemplate_next(mt, tr[k].next[i]) # <<>>
            /\ \A p \in 1..Len(mt.patterns) : \A i \in 1..Len(mt.patterns[p]) :
                  ModeTemplate_next(mt, mt.patterns[p][i]) # <<>>
            /\ Unwrap(next_res).op = "next" =>
                  \A i \in 1..Len(Unwrap(Unwrap(next_res).out.val)) :
                      ModeTemplate_next(mt, Unwrap(Unwrap(next_res).out.val)[i]) # <<>>

\* C29 witness: with the pattern "I V", next("I") holds "V", and next("V") has
\* candidates
C29_Witness ==
    /\ IsSome(next_res) /\ Unwrap(next_res).op = "next"
    /\ Unwrap(mode_template).patterns = <<Pattern(<< <<"I">>, <<"V">> >>)>>
    /\ Unwrap(next_res).chord = Some(ChordOf(<<"I">>))
    /\ ChordOf(<<"V">>) \in Range(Unwrap(Unwrap(next_res).out.val))
    /\ ModeTemplate_next(Unwrap(mode_template), ChordOf(<<"V">>)) # <<>>

\* the neighbour of position i (1-based) of pattern at distance d, cyclically
Neighbour(pattern, i, d) == pattern[((i - 1 + d) % Len(pattern)) + 1]

\* C12: update_transitions returns for every pattern of length n >= 1, and
\* then next(pattern[i]) contains pattern[i], pattern[(i-1) mod n] and
\* pattern[(i+1) mod n]
C12_NextHoldsNeighbours ==
    /\ (IsSome(next_res) /\ Unwrap(next_res).op = "update_transitions")
        => ~Unwrap(next_res).out.panicked
    /\ \A c \in TransChords :
        (IsSome(next_res) /\ Unwrap(next_res).op = "next"
            /\ Unwrap(next_res).chord = Some(c))
        => LET ps == Unwrap(mode_template).patterns
               out == Unwrap(Unwrap(next_res).out.val)
           IN  \A p \in 1..Len(ps) : \A i \in 1..Len(ps[p]) :
                   ps[p][i] = c =>
                       {c, Neighbour(ps[p], i, -1), Neighbour(ps[p], i, 1)}
                           \subseteq Range(out)

\* the positions <<p, i>> of the chords of the patterns ps, in order
Occurrences(ps) ==
    Flatten([p \in 1..Len(ps) |-> [i \in 1..Len(ps[p]) |-> <<p, i>>]])

\* what the occurrences of the rendered string of c in the patterns ps
\* contribute: the chord there and its two cyclic neighbours
Contributed(ps, c) ==
    LET occ == Occurrences(ps)
    IN  Flatten([k \in 1..Len(occ) |->
            LET pattern == ps[occ[k][1]]
                i == occ[k][2]
            IN  IF ChordSpec_fmt(pattern[i]) = ChordSpec_fmt(c)
                THEN <<pattern[i], Neighbour(pattern, i, -1), Neighbour(pattern, i, 1)>>
                ELSE <<>>])

SameBag(s, t) == \A x \in Range(s) \cup Range(t) : Count(s, x) = Count(t, x)

\* C13: once update_transitions has returned, next(c) holds what every
\* occurrence of the rendered string of c in every pattern contributes, and
\* nothing else: it is empty for a chord that is in no pattern
C13_NextAccumulates ==
    \A c \in TransChords \cup {TransUnknown} :
        (IsSome(next_res) /\ Unwrap(next_res).op = "next"
            /\ Unwrap(next_res).chord = Some(c))
        => /\ ~Unwrap(next_res).out.panicked
           /\ SameBag(Unwrap(Unwrap(next_res).out.val),
                      Contributed(Unwrap(mode_template).patterns, c))
           /\ (c = TransUnknown => Unwrap(next_res).out = Returned(<<>>))

\* C13 witness: "I" is in both patterns "I V" and "V V I", and next("I") has
\* the six candidates of its two occurrences
C13_Witness ==
    /\ IsSome(mode_template)
    /\ Unwrap(mode_template).patterns =
         << <<ChordOf(<<"I">>), ChordOf(<<"V">>)>>,
            <<ChordOf(<<"V">>), ChordOf(<<"V">>), ChordOf(<<"I">>)>> >>
    /\ \E out \in {Contributed(Unwrap(mode_template).patterns, ChordOf(<<"I">>))} :
          /\ Len(out) = 6
          /\ IsSome(next_res) /\ Unwrap(next_res).chord = Some(ChordOf(<<"I">>))
          /\ SameBag(Unwrap(Unwrap(next_res).out.val), out)

-----------------------------------------------------------------------------
(* The timing of generated progressions: gen_progression over several bars *)
(* of templates whose patterns repeat one chord                            *)

MaxTimingBars == 2     \* gen_progression takes 1..MaxTimingBars bars

\* ticks a bar: quarter notes, and three, for which BEATS_PER_BAR / resolution
\* is no exact f64
TimingResolutions == {3, 4}

TimingTemplate(res) ==
    [resolution |-> res,
     major |-> ModeTemplateOf(<< Pattern(<< <<"I">>, <<"I">> >>) >>),
     minor |-> ModeTemplateOf(<< Pattern(<< <<"i">>, <<"i">> >>) >>)]

\* the template as main holds it: loaded, update_transitions called
TimingInit ==
    /\ \E res \in TimingResolutions :
          template = Some(ProgressionTemplate_update_transitions(TimingTemplate(res)))
    /\ gen = None
    /\ ScaleIdle /\ ChordIdle /\ VoiceIdle /\ GridIdle /\ PureIdle /\ AppIdle

TimingNext ==
    \/ \E bars \in 1..MaxTimingBars : GenStartWith(bars)
    \/ GenTiming
    \/ GenWalk
    \/ GenFinish

SpecTiming == TimingInit /\ [][TimingNext]_vars

C20_RestsWithinBar ==
    (GenDone /\ ~Unwrap(Unwrap(gen).out).panicked) =>
        LET p == Unwrap(Unwrap(Unwrap(gen).out).val)
            ci == index_chords(p.sequence)
        IN  \A k \in 1..(Len(ci) - 1) :
                /\ ci[k + 1] - ci[k] - 1 >= 0
                /\ ci[k + 1] - ci[k] - 1 < Unwrap(template).resolution

-----------------------------------------------------------------------------
(* A Note rendered and read back *)

MaxPitch == 40         \* notes of -MaxPitch..MaxPitch semitones

notName == <<statefulVars, notesVars, degVars, distVars, transVars, appVars>>

NameInit ==
    /\ \E s \in -MaxPitch..MaxPitch : pitch = Some(s)
    /\ pitch_name = None /\ pitch_back = None
    /\ StatefulIdle /\ NotesIdle /\ DegIdle /\ DistIdle /\ TransIdle /\ AppIdle

\* note.to_string()
NoteToString ==
    /\ pitch_name = None
    /\ pitch_name' = Some(Note_fmt(Unwrap(pitch)))
    /\ UNCHANGED <<pitch, pitch_back, notName>>

\* Note::from_str(&name)
NoteFromStr ==
    /\ IsSome(pitch_name) /\ pitch_back = None
    /\ pitch_back' = Some(Note_from_str(Unwrap(pitch_name)))
    /\ UNCHANGED <<pitch, pitch_name, notName>>

NameNext == NoteToString \/ NoteFromStr

SpecName == NameInit /\ [][NameNext]_vars

\* C15: the rendered name of every Note, negative ones included, parses back to
\* the Note, and the rendered octave is the one that is 0 at semitone 0 ("A0"),
\* 3 at semitone 27 ("C3") and one more every 12 semitones from C to C
C15_NameRoundTrip ==
    /\ IsSome(pitch_name) =>
          Unwrap(pitch_name) = NAMES[(Unwrap(pitch) % 12) + 1]
                                 \o IsizeToString((Unwrap(pitch) + 9) \div 12)
    /\ (pitch = Some(0) /\ IsSome(pitch_name)) => pitch_name = Some(<<"A", "0">>)
    /\ (pitch = Some(27) /\ IsSome(pitch_name)) => pitch_name = Some(<<"C", "3">>)
    /\ IsSome(pitch_back) => pitch_back = Some(Ok(Unwrap(pitch)))

-----------------------------------------------------------------------------
(* ChordSpec::distance between two chords, taken both ways *)

DistSuffixes == {<<>>, <<":", "7">>, <<"%", "1">>, <<"/", "3">>}
DistChords ==
    {ChordOf(n \o s) : n \in NotesNumerals, s \in DistSuffixes}
        \cup {ChordSpec_new(0, "Major")}

notDist == <<statefulVars, notesVars, nameVars, degVars, transVars, appVars>>

DistInit ==
    /\ \E a \in DistChords, b \in DistChords : dist_pair = Some(<<a, b>>)
    /\ dist_res = None
    /\ StatefulIdle /\ NotesIdle /\ NameIdle /\ DegIdle /\ TransIdle /\ AppIdle

\* a.distance(&b) as the caller sees it
DistanceCall(a, b) ==
    IF distance_panics(a, b) THEN Panicked ELSE Returned(distance(a, b))

\* a.distance(&b) and b.distance(&a)
Distance ==
    /\ dist_res = None
    /\ dist_res' = Some(<<DistanceCall(Unwrap(dist_pair)[1], Unwrap(dist_pair)[2]),
                          DistanceCall(Unwrap(dist_pair)[2], Unwrap(dist_pair)[1])>>)
    /\ UNCHANGED <<dist_pair, notDist>>

DistNext == Distance

SpecDist == DistInit /\ [][DistNext]_vars

\* C16: for two ChordSpecs with the same number of notes a.distance(b) and
\* b.distance(a) are equal
C16_DistanceSymmetric ==
    (/\ IsSome(dist_res)
     /\ Len(intervals(Unwrap(dist_pair)[1])) = Len(intervals(Unwrap(dist_pair)[2])))
    => /\ ~Unwrap(dist_res)[1].panicked
       /\ Unwrap(dist_res)[1] = Unwrap(dist_res)[2]

\* the sorted notes ns with the n lowest raised by an octave, sorted again
LowestRaised(ns, n) ==
    sort_by_key([i \in 1..Len(ns) |-> IF i <= n THEN ns[i] + 12 ELSE ns[i]])

\* C18: the notes of a chord with inversion n are the notes of the chord without
\* inversion with its n lowest pitches raised by 12 semitones each (all of them
\* when n is at least the number of notes), extensions below a triad tone included
C18_InversionRaisesLowest ==
    (IsSome(notes) /\ Unwrap(ncs).spec.inversion > 0) =>
        LET c == Unwrap(ncs).spec
            base == NotesIn(ChordSpec_inversion(c, 0), Unwrap(nkey))
        IN  /\ ~Unwrap(notes).panicked
            /\ Unwrap(Unwrap(notes).val).notes
                 = LowestRaised(Unwrap(base.val).notes, c.inversion)

-----------------------------------------------------------------------------
(* Degree::to_interval on the degrees of extensions *)

notDeg == <<statefulVars, notesVars, nameVars, distVars, transVars, appVars>>

DegInit ==
    /\ \E m \in Modes : deg_mode = Some(m)
    /\ deg_in = None /\ deg_out = None
    /\ StatefulIdle /\ NotesIdle /\ NameIdle /\ DistIdle /\ TransIdle /\ AppIdle

\* Degree { degree: d, adj: a }.to_interval(&mode)
DegreeToInterval(d, a) ==
    /\ deg_in' = Some(Degree(d, a))
    /\ deg_out' = Some(IF Degree_to_interval_panics(Degree(d, a)) THEN Panicked
                       ELSE Returned(Degree_to_interval(Degree(d, a), Unwrap(deg_mode))))
    /\ UNCHANGED <<deg_mode, notDeg>>

DegNext == \E d \in 1..MaxDegree, a \in -MaxAdj..MaxAdj : DegreeToInterval(d, a)

SpecDeg == DegInit /\ [][DegNext]_vars

\* C19: the interval of degree d + 7 is 12 semitones above the interval of
\* degree d, for every d >= 1, adjustment and mode
C19_OctavePerSevenDegrees ==
    (IsSome(deg_in) /\ Unwrap(deg_in).degree >= 8) =>
        /\ ~Unwrap(deg_out).panicked
        /\ Unwrap(Unwrap(deg_out).val)
             = 12 + Degree_to_interval(Degree(Unwrap(deg_in).degree - 7,
                                              Unwrap(deg_in).adj),
                                       Unwrap(deg_mode))

-----------------------------------------------------------------------------
(* progression/mod.rs: the queries prev_chord and seq_idx_to_chord_idx on a *)
(* Progression that has been edited                                         *)

\* the chord at chord number chord_idx mod n, without the step back
Progression_prev_chord_same(p, chord_idx) ==
    IF Len(p.chord_index) = 0 THEN Panicked
    ELSE Returned(Unwrap(p.sequence[p.chord_index[(chord_idx % Len(p.chord_index)) + 1] + 1]))

\* Progression::prev_chord: rem_euclid by an empty chord_index aborts, and so
\* does the unwrap of a slot that holds no chord
Progression_prev_chord(p, chord_idx) ==
    IF Len(p.chord_index) = 0 THEN Panicked
    ELSE LET idx == (chord_idx - 1) % Len(p.chord_index)
             seq_idx == p.chord_index[idx + 1]
         IN  IF seq_idx >= Len(p.sequence) \/ p.sequence[seq_idx + 1] = None
             THEN Panicked
             ELSE Returned(Unwrap(p.sequence[seq_idx + 1]))

\* the loop of seq_idx_to_chord_idx from tick i (0-based) on
RECURSIVE SeqIdxLoop(_, _, _, _)
SeqIdxLoop(seq, seq_idx, i, chord_idx) ==
    IF i >= Len(seq) \/ i = seq_idx THEN chord_idx
    ELSE SeqIdxLoop(seq, seq_idx, i + 1,
                    IF seq[i + 1] # None THEN chord_idx + 1 ELSE chord_idx)

\* the count with the tick seq_idx itself included
Progression_seq_idx_to_chord_idx_incl(p, seq_idx) ==
    SeqIdxLoop(p.sequence, seq_idx + 1, 0, 0)

\* Progression::seq_idx_to_chord_idx
Progression_seq_idx_to_chord_idx(p, seq_idx) ==
    SeqIdxLoop(p.sequence, seq_idx, 0, 0)

notQuery == <<scaleVars, chordVars, voiceVars, genVars, pureVars, rebuildVars, midiVars,
              playbackVars, clockVars>>

QueryInit ==
    /\ \E res \in GridResolutions, n \in 0..MaxTicks :
         \E seq \in [1..n -> GridSlots] :
            /\ resolution = Progression_new(seq, res).resolution
            /\ sequence = Progression_new(seq, res).sequence
            /\ chord_index = Progression_new(seq, res).chord_index
    /\ grid_op = "new" /\ vl_prog = None /\ query = None
    /\ ScaleIdle /\ ChordIdle /\ VoiceIdle /\ GenIdle /\ PureIdle
    /\ RebuildIdle /\ MidiIdle /\ PlaybackIdle /\ ClockIdle

\* prog.prev_chord(chord_idx), chord_idx in 0..=n
PrevChord ==
    /\ query = None
    /\ \E chord_idx \in 0..Len(chord_index) :
          query' = Some([out |-> Progression_prev_chord(Prog, chord_idx),
                         op |-> "prev_chord", arg |-> chord_idx])
    /\ UNCHANGED <<gridVars, notQuery>>

\* prog.seq_idx_to_chord_idx(seq_idx), seq_idx in 0..len
SeqIdxToChordIdx ==
    /\ query = None
    /\ \E seq_idx \in 0..Len(sequence) :
          query' = Some([out |-> Returned(Progression_seq_idx_to_chord_idx(Prog, seq_idx)),
                         op |-> "seq_idx_to_chord_idx", arg |-> seq_idx])
    /\ UNCHANGED <<gridVars, notQuery>>

\* prog.set_chord(chord_idx, chord), chord_idx in 0..=n; query keeps the call
\* with its two arguments
QuerySetChord ==
    /\ query = None
    /\ \E chord_idx \in 0..Len(chord_index), c \in GridChords :
          IF Progression_set_chord_panics(Prog, chord_idx)
          THEN /\ query' = Some([out |-> Panicked, chord |-> c,
                                 op |-> "set_chord", arg |-> chord_idx])
               /\ UNCHANGED gridVars
          ELSE /\ query' = Some([out |-> Returned(<<>>), chord |-> c,
                                 op |-> "set_chord", arg |-> chord_idx])
               /\ resolution' = Progression_set_chord(Prog, chord_idx, c).resolution
               /\ sequence' = Progression_set_chord(Prog, chord_idx, c).sequence
               /\ chord_index' = Progression_set_chord(Prog, chord_idx, c).chord_index
               /\ grid_op' = "set"
               /\ UNCHANGED vl_prog
    /\ UNCHANGED notQuery

\* the grid is edited, then set_chord or a query is called
QueryNext ==
    \/ (query = None /\ InsertChordAt)
    \/ (query = None /\ DeleteChordAt)
    \/ QuerySetChord
    \/ PrevChord
    \/ SeqIdxToChordIdx

SpecQuery == QueryInit /\ [][QueryNext]_vars

\* C21: with n >= 1 chords, prev_chord(i) for i in 0..=n returns chord number
\* (i - 1) mod n in tick order; prev_chord(0) returns the last chord
C21_PrevChordWraps ==
    (IsSome(query) /\ Unwrap(query).op = "prev_chord" /\ Len(chord_index) >= 1) =>
        LET cl == ChordsInTickOrder(sequence)
            n == Len(cl)
            i == Unwrap(query).arg
        IN  /\ Unwrap(query).out = Returned(cl[((i - 1) % n) + 1])
            /\ i = 0 => Unwrap(query).out = Returned(cl[n])

\* C21 witness: prev_chord(0) on a grid edited to hold "I" then "V:7" gave "V:7"
C21_Witness ==
    /\ IsSome(query) /\ Unwrap(query).op = "prev_chord" /\ Unwrap(query).arg = 0
    /\ grid_op # "new"
    /\ ChordsInTickOrder(sequence) = <<ChordOf(<<"I">>), ChordOf(<<"V", ":", "7">>)>>
    /\ Unwrap(query).out = Returned(ChordOf(<<"V", ":", "7">>))

\* C22: seq_idx_to_chord_idx(tick) is the number of chord-holding ticks strictly
\* below tick, for every tick in 0..len; for a chord-holding tick t,
\* chord_index[seq_idx_to_chord_idx(t)] = t, after any edits of the grid
C22_ChordIdxCountsBefore ==
    (IsSome(query) /\ Unwrap(query).op = "seq_idx_to_chord_idx") =>
        LET t == Unwrap(query).arg
            r == Unwrap(Unwrap(query).out.val)
        IN  /\ r = Cardinality({u \in SomeTicks(sequence) : u < t})
            /\ t \in SomeTicks(sequence) =>
                  (r < Len(chord_index) /\ chord_index[r + 1] = t)

\* C22 witness: after an edit, the chord at tick 2 behind a chord and a rest is
\* chord number 1
C22_Witness ==
    /\ IsSome(query) /\ Unwrap(query).op = "seq_idx_to_chord_idx"
    /\ grid_op # "new"
    /\ Len(sequence) = 3 /\ sequence[1] # None /\ sequence[2] = None
    /\ sequence[3] # None
    /\ Unwrap(query).arg = 2 /\ Unwrap(query).out = Returned(1)
    /\ chord_index[2] = 2

\* the step is a call set_chord(i, c) that returned
SetChordReturned(i, c) ==
    /\ query = None /\ IsSome(query')
    /\ Unwrap(query').op = "set_chord" /\ ~Unwrap(query').out.panicked
    /\ Unwrap(query').arg = i /\ Unwrap(query').chord = c

\* C23: set_chord(i, spec) with i below the number of chords replaces only the
\* slot at tick chord_index[i], which holds spec afterwards: the rests, the
\* length of the sequence, every other slot, chord_index and the resolution are
\* as before
C23_SetChordFrame ==
    [][\A i \in 0..(Len(chord_index) - 1), c \in GridChords :
          SetChordReturned(i, c) =>
              /\ Len(sequence') = Len(sequence)
              /\ chord_index' = chord_index
              /\ resolution' = resolution
              /\ SomeTicks(sequence') = SomeTicks(sequence)
              /\ sequence'[chord_index[i + 1] + 1] = Some(c)
              /\ \A t \in 1..Len(sequence) :
                    t # chord_index[i + 1] + 1 => sequence'[t] = sequence[t]]_vars

\* C23 witness: set_chord(1, "V:7") has returned on a grid of a chord, a rest
\* and a second chord, and "V:7" is at tick 2
C23_Witness ==
    /\ IsSome(query) /\ Unwrap(query).op = "set_chord"
    /\ ~Unwrap(query).out.panicked
    /\ Unwrap(query).arg = 1 /\ Unwrap(query).chord = ChordOf(<<"V", ":", "7">>)
    /\ sequence = <<Some(ChordOf(<<"I">>)), None, Some(ChordOf(<<"V", ":", "7">>))>>
    /\ chord_index = <<0, 2>>

\* ------------------------------------------------------------------------
\* update_transitions on a ModeTemplate that still holds the transitions of
\* earlier patterns
\* ------------------------------------------------------------------------

MaxRebuildLen == 2     \* patterns of 1..MaxRebuildLen chords

RebuildPatterns == UNION {[1..n -> TransChords] : n \in 1..MaxRebuildLen}
\* a mode of one pattern or of two
RebuildModes == {<<p>> : p \in RebuildPatterns}
                  \cup {<<p, q>> : p \in RebuildPatterns, q \in RebuildPatterns}
\* the transitions a template may hold before the call: none, as after
\* deserialization, or those update_transitions built from earlier patterns
RebuildEarlier ==
    {<<>>} \cup {ModeTemplate_update_transitions(ModeTemplateOf(ps)).transitions :
                    ps \in {qs \in RebuildModes :
                              ~ModeTemplate_update_transitions_panics(ModeTemplateOf(qs))}}

notRebuild == <<statefulVars, notesVars, nameVars, degVars, distVars, next_res,
                queryVars, midiVars, playbackVars, clockVars>>

RebuildInit ==
    /\ \E ps \in RebuildModes, tr \in RebuildEarlier :
          mode_template = Some([patterns |-> ps, transitions |-> tr])
    /\ rebuild = None
    /\ next_res = None
    /\ StatefulIdle /\ NotesIdle /\ NameIdle /\ DegIdle /\ DistIdle /\ QueryIdle
    /\ MidiIdle /\ PlaybackIdle /\ ClockIdle

\* mode_template.update_transitions(), the first call or the next one in a row;
\* rebuild records the transitions the call found and those it left
UpdateTransitionsAgain ==
    /\ IF rebuild = None THEN TRUE ELSE ~Unwrap(rebuild).out.panicked
    /\ IF ModeTemplate_update_transitions_panics(Unwrap(mode_template))
       THEN /\ rebuild' = Some([out |-> Panicked,
                                before |-> Unwrap(mode_template).transitions])
            /\ UNCHANGED mode_template
       ELSE /\ mode_template' =
                 Some(ModeTemplate_update_transitions(Unwrap(mode_template)))
            /\ rebuild' = Some([out |-> Returned(Unwrap(mode_template').transitions),
                                before |-> Unwrap(mode_template).transitions])
    /\ UNCHANGED notRebuild

RebuildNext == UpdateTransitionsAgain

SpecRebuild == RebuildInit /\ [][RebuildNext]_vars

TransitionKeys(tr) == {tr[k].name : k \in 1..Len(tr)}
PatternKeys(ps) == {ChordSpec_fmt(ps[p][i]) : <<p, i>> \in Range(Occurrences(ps))}

\* C24: once update_transitions has returned, whatever the transitions were
\* before, the map has exactly one key per rendered chord of the current
\* patterns, each key holds what the current patterns contribute and nothing
\* else, and one more call leaves the same map
C24_RebuildsFromPatterns ==
    (IsSome(rebuild) /\ ~Unwrap(rebuild).out.panicked)
    => LET mt == Unwrap(mode_template)
           tr == mt.transitions
       IN  /\ TransitionKeys(tr) = PatternKeys(mt.patterns)
           /\ \A j, k \in 1..Len(tr) : tr[j].name = tr[k].name => j = k
           /\ \A k \in 1..Len(tr) : \A c \in TransChords :
                 ChordSpec_fmt(c) = tr[k].name
                    => SameBag(tr[k].next, Contributed(mt.patterns, c))
           /\ ModeTemplate_update_transitions(mt).transitions = tr
           /\ Unwrap(rebuild).out = Returned(tr)

\* C24 witness: the call found a key of the earlier patterns that the current
\* patterns do not have, and a key they share whose candidates were others
C24_Witness ==
    /\ IsSome(rebuild) /\ ~Unwrap(rebuild).out.panicked
    /\ LET before == Unwrap(rebuild).before
           tr == Unwrap(mode_template).transitions
       IN  /\ TransitionKeys(before) \ TransitionKeys(tr) # {}
           /\ \E j \in 1..Len(before), k \in 1..Len(tr) :
                 /\ before[j].name = tr[k].name
                 /\ ~SameBag(before[j].next, tr[k].next)

\* ------------------------------------------------------------------------
\* ChordSpec::distance of a chord to itself
\* ------------------------------------------------------------------------

\* one suffix per feature of the grammar: triads, extensions, bass, inversion,
\* shift, relative key, and the degree 0 the grammar accepts
SelfSuffixes ==
    {<<>>, <<"-">>, <<"+">>, <<"5">>, <<"_">>, <<"^">>,
     <<":", "7">>, <<":", "7", ",", "9">>, <<":", "b", "7">>,
     <<"/", "3">>, <<"/", "5">>, <<"%", "1">>, <<"%", "2">>,
     <<">", "1">>, <<"<", "1">>, <<"~", "V">>, <<"~", "i", "i">>,
     <<":", "7", "/", "3", "~", "V">>,
     <<":", "0">>, <<"/", "0">>}
SelfTexts == {n \o s : n \in NotesNumerals, s \in SelfSuffixes}
SelfChords ==
    {ChordOf(t) : t \in {u \in SelfTexts : ChordSpec_from_str(u).ok}}
        \cup {ChordSpec_new(0, "Major"), ChordSpec_new(0, "Minor")}

SelfInit ==
    /\ \E c \in SelfChords : dist_pair = Some(<<c, c>>)
    /\ dist_res = None
    /\ StatefulIdle /\ NotesIdle /\ NameIdle /\ DegIdle /\ TransIdle /\ AppIdle

SelfNext == Distance

SpecSelf == SelfInit /\ [][SelfNext]_vars

\* C25: c.distance(c) returns 0 for every ChordSpec c
C25_SelfDistanceZero ==
    IsSome(dist_res) => Unwrap(dist_res)[1] = Returned(0)

\* where the intervals of c from the key's root can be computed, c.distance(c)
\* is 0
SelfDistanceZeroWhereDefined ==
    (/\ IsSome(dist_res)
     /\ ~Degree_to_interval_panics(Unwrap(dist_pair)[1].root)
     /\ ~intervals_panics(Unwrap(dist_pair)[1]))
        => Unwrap(dist_res)[1] = Returned(0)

\* ------------------------------------------------------------------------
\* midi/output.rs: MIDIOutput, its callers and the threads it spawns
\* ------------------------------------------------------------------------

NOTE_ON_MSG == 144
NOTE_OFF_MSG == 128

MaxPlays == 2          \* play_notes and play_note calls
\* the durations of the calls, in units of 150 ms
PlayDurations == {1, 2}

\* two MIDI notes, and the note vectors a call is given
MidiNotes == {60, 64}
MidiNoteVecs == {<<60>>, <<64>>, <<60, 64>>, <<60, 60>>}

notMidi == <<statefulVars, pureVars, queryVars, rebuildVars, playbackVars, clockVars>>

\* MIDIOutput::new: no connection; note_owners maps a note to its count, 0
\* for a note without an entry
MidiInit ==
    /\ note_owners = [n \in MidiNotes |-> 0]
    /\ plays = <<>>
    /\ midi_sent = <<>>
    /\ sounding = {}
    /\ conn = None
    /\ StatefulIdle /\ PureIdle /\ QueryIdle /\ RebuildIdle
    /\ PlaybackIdle /\ ClockIdle

\* the highest number assigned to the note so far
HighestAssigned(nt) ==
    LET ns == {plays[t].my_notes[nt] : t \in 1..Len(plays)} \cup {0}
    IN  CHOOSE m \in ns : \A x \in ns : x <= m

\* play_notes is entered: the caller holds &mut self, so the call before it
\* has spawned its thread
PlayNotes ==
    /\ Len(plays) < MaxPlays
    /\ \A t \in 1..Len(plays) : plays[t].pc # "claim"
    /\ \E nvec \in MidiNoteVecs, duration \in PlayDurations :
          plays' = Append(plays, [pc |-> "claim", notes |-> nvec, i |-> 0,
                                  my_notes |-> [n \in MidiNotes |-> 0],
                                  call |-> "play_notes", sleep |-> duration])
    /\ midi_sent' = <<>>
    /\ UNCHANGED <<note_owners, sounding, conn, notMidi>>

\* play_note spawns its thread: no entry in note_owners, no number
PlayNote ==
    /\ Len(plays) < MaxPlays
    /\ \A t \in 1..Len(plays) : plays[t].pc # "claim"
    /\ \E nt \in MidiNotes, duration \in PlayDurations :
          plays' = Append(plays, [pc |-> "on", notes |-> <<nt>>, i |-> 0,
                                  my_notes |-> [n \in MidiNotes |-> 0],
                                  call |-> "play_note", sleep |-> duration])
    /\ midi_sent' = <<>>
    /\ UNCHANGED <<note_owners, sounding, conn, notMidi>>

\* connect_port: Err for a port index that is not there, else the new
\* connection is put into conn, whatever it held
ConnectPort ==
    /\ \A t \in 1..Len(plays) : plays[t].pc # "claim"
    /\ \E port_exists \in BOOLEAN :
          conn' = IF port_exists THEN Some("dust") ELSE conn
    /\ midi_sent' = <<>>
    /\ UNCHANGED <<note_owners, plays, sounding, notMidi>>

\* one round of the loop of the caller: lock note_owners, count the note up,
\* keep the number in my_notes; after the last note the thread is spawned
ClaimNote(t) ==
    /\ plays[t].pc = "claim"
    /\ LET nt == plays[t].notes[plays[t].i + 1]
           n == note_owners[nt] + 1
       IN  /\ note_owners' = [note_owners EXCEPT ![nt] = n]
           /\ plays' = [plays EXCEPT ![t].my_notes[nt] = n,
                                     ![t].i = @ + 1,
                                     ![t].pc = IF plays[t].i + 1 = Len(plays[t].notes)
                                               THEN "on" ELSE "claim"]
    /\ midi_sent' = <<>>
    /\ UNCHANGED <<sounding, conn, notMidi>>

\* the messages of the first block of the thread
SendNoteOn(t) ==
    [k \in 1..Len(plays[t].notes) |->
        [note |-> plays[t].notes[k], msg |-> NOTE_ON_MSG, thread |-> t,
         number |-> plays[t].my_notes[plays[t].notes[k]],
         highest |-> HighestAssigned(plays[t].notes[k])]] \o <<>>

\* the NOTE_OFF of every note, owned or not
SendNoteOff_unowned(t) ==
    [k \in 1..Len(plays[t].notes) |->
        [note |-> plays[t].notes[k], msg |-> NOTE_OFF_MSG, thread |-> t,
         number |-> plays[t].my_notes[plays[t].notes[k]],
         highest |-> HighestAssigned(plays[t].notes[k])]] \o <<>>

\* the messages of the last block of the thread: NOTE_OFF for the notes with
\* my_number >= owners.get(note)
SendNoteOff(t) ==
    LET all == SendNoteOff_unowned(t)
    IN  Flatten([k \in 1..Len(all) |->
            IF all[k].number >= note_owners[all[k].note] THEN <<all[k]>> ELSE <<>>])

\* the notes that are on at the receiver once it got the messages
RECURSIVE Received(_, _)
Received(on, msgs) ==
    IF msgs = <<>> THEN on
    ELSE Received(IF Head(msgs).msg = NOTE_ON_MSG THEN on \cup {Head(msgs).note}
                  ELSE on \ {Head(msgs).note}, Tail(msgs))

\* the thread takes the connection and sends NOTE_ON for its notes, then sleeps
ThreadNoteOn(t) ==
    /\ plays[t].call = "play_notes" /\ plays[t].pc = "on"
    /\ midi_sent' = IF conn = None THEN <<>> ELSE SendNoteOn(t)
    /\ sounding' = Received(sounding, midi_sent')
    /\ plays' = [plays EXCEPT ![t].pc = "sleep"]
    /\ UNCHANGED <<note_owners, conn, notMidi>>

\* the sleep is over: the thread takes the connection and note_owners and sends
\* NOTE_OFF for the notes it owns
ThreadNoteOff(t) ==
    /\ plays[t].call = "play_notes"
    /\ plays[t].pc = "sleep" /\ plays[t].sleep = 0
    /\ midi_sent' = IF conn = None THEN <<>> ELSE SendNoteOff(t)
    /\ sounding' = Received(sounding, midi_sent')
    /\ plays' = [plays EXCEPT ![t].pc = "done"]
    /\ UNCHANGED <<note_owners, conn, notMidi>>

\* the thread of play_note takes the connection and sends NOTE_ON, then sleeps
NoteThreadOn(t) ==
    /\ plays[t].call = "play_note" /\ plays[t].pc = "on"
    /\ midi_sent' = IF conn = None THEN <<>>
                    ELSE <<[note |-> plays[t].notes[1], msg |-> NOTE_ON_MSG,
                            thread |-> t, number |-> 0,
                            highest |-> HighestAssigned(plays[t].notes[1])]>>
    /\ sounding' = Received(sounding, midi_sent')
    /\ plays' = [plays EXCEPT ![t].pc = "sleep"]
    /\ UNCHANGED <<note_owners, conn, notMidi>>

\* the sleep of the thread of play_note is over: it takes the connection and
\* sends NOTE_OFF, without a look at note_owners
NoteThreadOff(t) ==
    /\ plays[t].call = "play_note"
    /\ plays[t].pc = "sleep" /\ plays[t].sleep = 0
    /\ midi_sent' = IF conn = None THEN <<>>
                    ELSE <<[note |-> plays[t].notes[1], msg |-> NOTE_OFF_MSG,
                            thread |-> t, number |-> 0,
                            highest |-> HighestAssigned(plays[t].notes[1])]>>
    /\ sounding' = Received(sounding, midi_sent')
    /\ plays' = [plays EXCEPT ![t].pc = "done"]
    /\ UNCHANGED <<note_owners, conn, notMidi>>

\* close: with a connection, NOTE_OFF for every key of note_owners, in the
\* order the HashMap yields them; the connection stays (thread 0 is the caller)
Close ==
    /\ \A t \in 1..Len(plays) : plays[t].pc # "claim"
    /\ LET keys == {n \in MidiNotes : note_owners[n] > 0}
       IN  \E order \in [1..Cardinality(keys) -> keys] :
              /\ \A a, b \in 1..Cardinality(keys) : a # b => order[a] # order[b]
              /\ midi_sent' = IF conn = None \/ keys = {} THEN <<>>
                              ELSE [k \in 1..Cardinality(keys) |->
                                      [note |-> order[k], msg |-> NOTE_OFF_MSG,
                                       thread |-> 0, number |-> 0,
                                       highest |-> HighestAssigned(order[k])]] \o <<>>
    /\ sounding' = Received(sounding, midi_sent')
    /\ UNCHANGED <<note_owners, plays, conn, notMidi>>

\* 150 ms pass while a thread sleeps: sleep is what is left of the sleep of a
\* thread, in units of 150 ms
Elapse ==
    /\ \E t \in 1..Len(plays) : plays[t].pc = "sleep" /\ plays[t].sleep > 0
    /\ plays' = [t \in 1..Len(plays) |->
                    IF plays[t].pc = "sleep" /\ plays[t].sleep > 0
                    THEN [plays[t] EXCEPT !.sleep = @ - 1] ELSE plays[t]] \o <<>>
    /\ midi_sent' = <<>>
    /\ UNCHANGED <<note_owners, sounding, conn, notMidi>>

MidiNext ==
    \/ PlayNotes
    \/ PlayNote
    \/ ConnectPort
    \/ \E t \in 1..MaxPlays : t <= Len(plays) /\ ClaimNote(t)
    \/ \E t \in 1..MaxPlays : t <= Len(plays) /\ ThreadNoteOn(t)
    \/ \E t \in 1..MaxPlays : t <= Len(plays) /\ ThreadNoteOff(t)
    \/ \E t \in 1..MaxPlays : t <= Len(plays) /\ NoteThreadOn(t)
    \/ \E t \in 1..MaxPlays : t <= Len(plays) /\ NoteThreadOff(t)
    \/ Close
    \/ Elapse

SpecMidi == MidiInit /\ [][MidiNext]_vars

\* C26: the thread of a play_notes call sent a NOTE_OFF for a note only when
\* its number for the note was the highest assigned to the note at that
\* moment, so never once a later play_notes call had claimed the note
C26_NoteOffByOwner ==
    \A k \in 1..Len(midi_sent) :
        (/\ midi_sent[k].msg = NOTE_OFF_MSG
         /\ IF midi_sent[k].thread = 0 THEN FALSE
            ELSE plays[midi_sent[k].thread].call = "play_notes")
            => /\ midi_sent[k].number = midi_sent[k].highest
               /\ \A u \in 1..Len(plays) :
                     (u > midi_sent[k].thread
                        /\ plays[u].my_notes[midi_sent[k].note] > 0)
                     => plays[u].my_notes[midi_sent[k].note] > midi_sent[k].highest

\* C26 witness: two calls overlapped on note 60; the thread of the first call
\* has sent its NOTE_ON and the second call has claimed the note; the thread of
\* the first call then woke and sent no NOTE_OFF
C26_Witness ==
    /\ Len(plays) = 2 /\ plays[1].pc = "done" /\ plays[2].pc = "sleep"
    /\ plays[1].call = "play_notes" /\ plays[2].call = "play_notes"
    /\ plays[1].my_notes[60] = 1 /\ plays[2].my_notes[60] = 2
    /\ conn # None /\ midi_sent = <<>> /\ sounding = {60}

\* every call was a play_notes call, and the thread of each has finished
AllPlaysDone ==
    /\ plays # <<>>
    /\ \A t \in 1..Len(plays) : plays[t].call = "play_notes" /\ plays[t].pc = "done"

\* C27: once every thread of play_notes has finished, no note is left
\* sounding: every note that got a NOTE_ON got a NOTE_OFF after its last NOTE_ON
C27_NoNoteLeftSounding ==
    AllPlaysDone => sounding = {}

\* ------------------------------------------------------------------------
\* app/sequencer/state.rs: PlaybackState, with the keys of
\* app/sequencer/grid.rs and app/sequencer/progression.rs
\* ------------------------------------------------------------------------

MaxPlaybackBars == 2   \* bars is set to 0..MaxPlaybackBars

\* the rest lengths of the progressions the sequencer plays
PlaybackRests == {3, 7}

\* Key::default
Key_default == [mode |-> "Major", root |-> 39]

\* template.gen_progression(&mode, bars, &resolution) for bars >= 1 and the
\* first chord, as the timing generation is specified: bars x ticks_per_bar
\* slots, a chord at tick 0, and after each chord a rest length below
\* ticks_per_bar, then the next chord.  The rest length is one of PlaybackRests
\* throughout and the walk repeats the first chord.
PlaybackProgressions(bars, first) ==
    LET n == bars * Duration_ticks_per_bar("Eighth")
    IN  {Progression_new([k \in 1..n |-> IF (k - 1) % (rest + 1) = 0
                                          THEN Some(first) ELSE None] \o <<>>,
                         "Eighth") : rest \in PlaybackRests}

\* the template of the sequencer: the pattern "I V" in major, its transitions built
PlaybackTemplate ==
    ProgressionTemplate_update_transitions(
        [major |-> ModeTemplateOf(<<Pattern(<< <<"I">>, <<"V">> >>)>>),
         minor |-> ModeTemplateOf(<<>>)])

\* PlaybackState::new with the progression gen_progression returned
PlaybackState_new(progression) ==
    [key |-> Key_default, resolution |-> "Eighth", bars |-> 2,
     progression |-> progression, tick |-> 0, clip |-> <<0, Len(progression.sequence)>>,
     note_duration |-> 5]

PlaybackState_clip_len(s) == s.clip[2] - s.clip[1]

PlaybackState_clip_start(s) == s.clip[1]

\* PlaybackState::tick
PlaybackState_tick(s) ==
    IF s.tick + 1 >= PlaybackState_clip_len(s) THEN [s EXCEPT !.tick = 0]
    ELSE [s EXCEPT !.tick = s.tick + 1]

\* PlaybackState::reset_clip
PlaybackState_reset_clip(s) ==
    [s EXCEPT !.clip = <<0, Len(s.progression.sequence)>>]

\* PlaybackState::gen_progression with the progression the template returned
PlaybackState_gen_progression(s, progression) ==
    PlaybackState_reset_clip([s EXCEPT !.progression = progression])

\* PlaybackState::current_chord: the index aborts beyond the sequence, and
\* chord_for_key aborts as Key::interval and intervals do
PlaybackState_current_chord(s) ==
    LET i == s.tick + PlaybackState_clip_start(s)
        seq == s.progression.sequence
    IN  IF i >= Len(seq) THEN Panicked
        ELSE IF seq[i + 1] = None THEN Returned(None)
        ELSE IF chord_for_key_panics(Unwrap(seq[i + 1]), s.key) THEN Panicked
        ELSE Returned(Some(<<chord_for_key(Unwrap(seq[i + 1]), s.key),
                             s.note_duration>>))

\* process_input, key 'A': the start of the loop
process_input_A(s, sel_idx) ==
    IF s.clip[1] # sel_idx /\ sel_idx < s.clip[2]
    THEN [s EXCEPT !.clip[1] = sel_idx] ELSE s

\* process_input, key 'B': the end of the loop
process_input_B(s, sel_idx) ==
    LET idx == sel_idx + 1
    IN  IF s.clip[2] # idx /\ sel_idx > s.clip[1]
        THEN [s EXCEPT !.clip[2] = idx] ELSE s

\* process_input of progression.rs, keys 'U' (up) and 'D': the index of the
\* candidate after (before) the current chord, 0 when it is not a candidate
CycleIndex(cands, current_chord, up) ==
    LET found == {k \in 1..Len(cands) : cands[k] = current_chord}
    IN  IF found = {} THEN 0
        ELSE LET pos == (CHOOSE k \in found : \A j \in found : k <= j) - 1
             IN  IF up THEN (IF pos = Len(cands) - 1 THEN 0 ELSE pos + 1)
                 ELSE (IF pos = 0 THEN Len(cands) - 1 ELSE pos - 1)

\* the same keys: set_chord(chord_idx, cands[idx]), where cands[idx] aborts
\* when there is no candidate
CycleSetChord(s, chord_idx, cands, idx) ==
    IF idx >= Len(cands) THEN Panicked
    ELSE Returned([s EXCEPT !.progression =
                      Progression_set_chord(@, chord_idx, cands[idx + 1])])

\* the same keys: the chord under the cursor becomes its neighbour among the
\* candidates the template has for the chord before it
process_input_UD(s, sel_idx, up) ==
    LET p == s.progression
        chord_idx == Progression_seq_idx_to_chord_idx(p, sel_idx)
    IN  IF p.sequence[sel_idx + 1] = None THEN Returned(s)
        ELSE IF Progression_prev_chord(p, chord_idx).panicked THEN Panicked
        ELSE IF chord_idx >= Len(p.chord_index) THEN Panicked
        ELSE IF p.sequence[p.chord_index[chord_idx + 1] + 1] = None THEN Panicked
        ELSE LET cands == ProgressionTemplate_next(
                              PlaybackTemplate,
                              Unwrap(Progression_prev_chord(p, chord_idx).val),
                              s.key.mode)
             IN  CycleSetChord(s, chord_idx, cands,
                    CycleIndex(cands,
                               Unwrap(p.sequence[p.chord_index[chord_idx + 1] + 1]),
                               up))

\* the ticks seq.selected_idx() is taken from: the first two ticks, the start
\* of the second bar and the last tick of the sequence
SelectedTicks(s) ==
    LET n == Len(s.progression.sequence)
    IN  {i \in {0, 1, Duration_ticks_per_bar(s.resolution), n - 1} : i < n}

notPlayback == <<statefulVars, pureVars, queryVars, rebuildVars, midiVars, clockVars>>

\* current holds the outcome of the last call, None after a call without one
PlaybackInit ==
    /\ \E p \in PlaybackProgressions(2, ChordOf(<<"I">>)) :
          playback = Some(PlaybackState_new(p))
    /\ current = None
    /\ StatefulIdle /\ PureIdle /\ QueryIdle /\ RebuildIdle /\ MidiIdle /\ ClockIdle

PlaybackRunning == IF current = None THEN TRUE ELSE ~Unwrap(current).out.panicked

\* state.tick()
PlaybackTick ==
    /\ PlaybackRunning
    /\ playback' = Some(PlaybackState_tick(Unwrap(playback)))
    /\ current' = None
    /\ UNCHANGED notPlayback

\* state.reset_tick()
ResetTick ==
    /\ PlaybackRunning
    /\ playback' = Some([Unwrap(playback) EXCEPT !.tick = 0])
    /\ current' = None
    /\ UNCHANGED notPlayback

\* the key 'A' on a selected tick of the sequence
SetLoopStart ==
    /\ PlaybackRunning
    /\ \E sel_idx \in SelectedTicks(Unwrap(playback)) :
          playback' = Some(process_input_A(Unwrap(playback), sel_idx))
    /\ current' = None
    /\ UNCHANGED notPlayback

\* the key 'B' on a selected tick of the sequence
SetLoopEnd ==
    /\ PlaybackRunning
    /\ \E sel_idx \in SelectedTicks(Unwrap(playback)) :
          playback' = Some(process_input_B(Unwrap(playback), sel_idx))
    /\ current' = None
    /\ UNCHANGED notPlayback

\* the key 'C'
ClearLoop ==
    /\ PlaybackRunning
    /\ playback' = Some(PlaybackState_reset_clip(Unwrap(playback)))
    /\ current' = None
    /\ UNCHANGED notPlayback

\* the key 'd' on a selected tick of the sequence: a chord there is deleted
DeleteChord ==
    /\ PlaybackRunning
    /\ \E sel_idx \in SelectedTicks(Unwrap(playback)) :
          LET s == Unwrap(playback)
          IN  playback' = IF s.progression.sequence[sel_idx + 1] = None THEN Some(s)
                          ELSE Some([s EXCEPT !.progression =
                                        Progression_delete_chord_at(@, sel_idx)])
    /\ current' = None
    /\ UNCHANGED notPlayback

\* the key 'U' or 'D' on a selected tick of the sequence
CycleChord ==
    /\ PlaybackRunning
    /\ \E sel_idx \in SelectedTicks(Unwrap(playback)),
          up \in BOOLEAN :
          LET r == process_input_UD(Unwrap(playback), sel_idx, up)
          IN  IF r.panicked
              THEN /\ current' = Some([out |-> Panicked, op |-> "process_input"])
                   /\ UNCHANGED playback
              ELSE /\ playback' = Some(Unwrap(r.val))
                   /\ current' = None
    /\ UNCHANGED notPlayback

\* the text input of the bars: bars is assigned, the progression generated
\* anew, the clip reset and, with the events restarted, the tick set to 0, in
\* one step.  For bars = 0 the generation aborts, as timed_to_sequence does,
\* before the clip and the tick are reached.
SetBars ==
    /\ PlaybackRunning
    /\ \E bars \in 0..MaxPlaybackBars :
          IF bars = 0
          THEN /\ playback' = Some([Unwrap(playback) EXCEPT !.bars = bars])
               /\ current' = Some([out |-> Panicked, op |-> "gen_progression"])
          ELSE /\ \E p \in PlaybackProgressions(bars, ChordOf(<<"I">>)) :
                     playback' = Some([PlaybackState_gen_progression(
                                          [Unwrap(playback) EXCEPT !.bars = bars], p)
                                          EXCEPT !.tick = 0])
               /\ current' = None
    /\ UNCHANGED notPlayback

\* state.gen_progression(&template), for the bars the state holds
Regenerate ==
    /\ PlaybackRunning
    /\ \E p \in PlaybackProgressions(Unwrap(playback).bars, ChordOf(<<"I">>)) :
          playback' = Some(PlaybackState_gen_progression(Unwrap(playback), p))
    /\ current' = None
    /\ UNCHANGED notPlayback

\* state.gen_progression_from_seed(&chord, &template): the progression starts
\* with the seed; bars and tick stay, the clip is reset
RegenerateFromSeed ==
    /\ PlaybackRunning
    /\ \E p \in PlaybackProgressions(Unwrap(playback).bars, ChordOf(<<"I", "V">>)) :
          playback' = Some(PlaybackState_reset_clip(
                              [Unwrap(playback) EXCEPT !.progression = p]))
    /\ current' = None
    /\ UNCHANGED notPlayback

\* state.current_chord()
CurrentChord ==
    /\ current = None
    /\ current' = Some([out |-> PlaybackState_current_chord(Unwrap(playback)),
                        op |-> "current_chord"])
    /\ UNCHANGED <<playback, notPlayback>>

PlaybackNext ==
    \/ PlaybackTick
    \/ ResetTick
    \/ SetLoopStart
    \/ SetLoopEnd
    \/ ClearLoop
    \/ DeleteChord
    \/ CycleChord
    \/ SetBars
    \/ Regenerate
    \/ RegenerateFromSeed
    \/ CurrentChord

SpecPlayback == PlaybackInit /\ [][PlaybackNext]_vars

\* the clip lies in the sequence and is not empty
ClipWithinSequence ==
    LET s == Unwrap(playback)
    IN  0 <= s.clip[1] /\ s.clip[1] < s.clip[2]
            /\ s.clip[2] <= Len(s.progression.sequence)

\* C28: under any order of ticks, loop edits and regenerations the clip
\* satisfies 0 <= clip.0 < clip.1 <= length of the sequence, and clip.0 + tick
\* is an index of the sequence whenever current_chord is evaluated
C28_ClipAndTickInRange ==
    /\ ClipWithinSequence
    /\ (IF current = None THEN FALSE ELSE Unwrap(current).op = "current_chord") =>
          /\ ~Unwrap(current).out.panicked
          /\ Unwrap(playback).clip[1] + Unwrap(playback).tick
                < Len(Unwrap(playback).progression.sequence)

\* current_chord right after tick() finds its index in the clip
CurrentChordAfterTick ==
    [][PlaybackTick => ~PlaybackState_current_chord(Unwrap(playback')).panicked]_vars

\* ------------------------------------------------------------------------
\* midi/clock.rs: the callback MIDIClock::connect_port installs
\* ------------------------------------------------------------------------

QUARTERS_PER_BAR == 4
TICKS_PER_QUARTER == 24

MaxClockMessages == 3  \* Start or Stop messages counted in clock_in

\* the incoming messages: clock, start, continue, stop, active sensing, and a
\* note-on of three bytes
ClockMessages == {<<248>>, <<250>>, <<251>>, <<252>>, <<254>>, <<144, 60, 100>>}

\* the callback with every clock message counted, playing or not
MIDIClock_on_message_free(c, msg) ==
    IF msg = <<248>>
    THEN LET t == IF c.tick + 1 >= QUARTERS_PER_BAR * TICKS_PER_QUARTER
                  THEN 0 ELSE c.tick + 1
         IN  [tick |-> t, playing |-> c.playing,
              ev |-> Some([tick |-> t, type |-> "Tick"])]
    ELSE [tick |-> c.tick, playing |-> c.playing, ev |-> None]

\* the callback of connect_port on one message: the tick and playing it
\* leaves and the event it hands to tick_fn, if any
MIDIClock_on_message(c, msg) ==
    IF msg = <<248>>
    THEN IF c.playing
         THEN LET t == IF c.tick + 1 >= QUARTERS_PER_BAR * TICKS_PER_QUARTER
                       THEN 0 ELSE c.tick + 1
              IN  [tick |-> t, playing |-> TRUE,
                   ev |-> Some([tick |-> t, type |-> "Tick"])]
         ELSE [tick |-> c.tick, playing |-> FALSE, ev |-> None]
    ELSE IF msg = <<250>>
    THEN [tick |-> c.tick, playing |-> TRUE, ev |-> Some([tick |-> 0, type |-> "Start"])]
    ELSE IF msg = <<252>>
    THEN [tick |-> c.tick, playing |-> FALSE, ev |-> Some([tick |-> 0, type |-> "Stop"])]
    ELSE [tick |-> c.tick, playing |-> c.playing, ev |-> None]

notClock == <<statefulVars, pureVars, queryVars, rebuildVars, midiVars, playbackVars>>

\* connect_port: tick = 0, playing = false; nothing has come in
ClockInit ==
    /\ clock = Some([tick |-> 0, playing |-> FALSE])
    /\ clock_ev = None
    /\ clock_in = Some([msg |-> <<>>, control |-> <<>>, controls |-> 0,
                        delivered |-> None])
    /\ StatefulIdle /\ PureIdle /\ QueryIdle /\ RebuildIdle /\ MidiIdle
    /\ PlaybackIdle

\* a message comes in and the callback runs; clock_in keeps the message, the
\* last Start or Stop before it, how many of those came in, and the tick value
\* delivered last before this message
ClockMessage(msg) ==
    /\ msg \in {<<250>>, <<252>>} => Unwrap(clock_in).controls < MaxClockMessages
    /\ LET r == MIDIClock_on_message(Unwrap(clock), msg)
       IN  /\ clock' = Some([tick |-> r.tick, playing |-> r.playing])
           /\ clock_ev' = r.ev
    /\ clock_in' =
          Some([msg |-> msg,
                control |-> IF Unwrap(clock_in).msg \in {<<250>>, <<252>>}
                            THEN Unwrap(clock_in).msg ELSE Unwrap(clock_in).control,
                controls |-> IF msg \in {<<250>>, <<252>>}
                             THEN Unwrap(clock_in).controls + 1
                             ELSE Unwrap(clock_in).controls,
                delivered |-> IF IsSome(clock_ev) /\ Unwrap(clock_ev).type = "Tick"
                              THEN Some(Unwrap(clock_ev).tick)
                              ELSE Unwrap(clock_in).delivered])
    /\ UNCHANGED notClock

ClockNext == \E msg \in ClockMessages : ClockMessage(msg)

SpecClock == ClockInit /\ [][ClockNext]_vars

\* C30: a Tick is delivered only for a clock message whose last Start or Stop
\* before it was a Start; its value is in 0..95 and is the value delivered
\* before it plus one modulo 96, Start and Stop in between or not
C30_TicksOnlyWhilePlaying ==
    (IsSome(clock_ev) /\ Unwrap(clock_ev).type = "Tick") =>
        /\ Unwrap(clock_in).msg = <<248>>
        /\ Unwrap(clock_in).control = <<250>>
        /\ Unwrap(clock_ev).tick \in 0..95
        /\ IsSome(Unwrap(clock_in).delivered) =>
              Unwrap(clock_ev).tick = (Unwrap(Unwrap(clock_in).delivered) + 1) % 96

\* C30 witness: tick 0 is delivered after tick 95, with a Stop and a Start since
\* the first Start
C30_Witness ==
    /\ IsSome(clock_ev) /\ Unwrap(clock_ev) = [tick |-> 0, type |-> "Tick"]
    /\ Unwrap(clock_in).delivered = Some(95)
    /\ Unwrap(clock_in).controls = 3

=============================================================================
